---------------------------- MODULE Spec2Model ----------------------------
(***************************************************************************)
(* A model of the SEBI compliance agent: the clause classifier, the graph  *)
(* of nodes built by build_compliance_graph, the two routing functions,    *)
(* the checkpointed executor behind process_clause, and the callers of     *)
(* process_clause.  Texts are TLA+ strings handled character by character, *)
(* as the Python code handles them.                                        *)
(***************************************************************************)
EXTENDS Integers, Sequences, FiniteSets, TLC

VARIABLES
    llm,        \* the module-level oracle handle: "none" or "ok"
    store,      \* MemorySaver: thread id -> latest checkpoint (channel values)
    run,        \* one record per process_clause invocation slot
    ncalls,     \* process_clause invocations started so far
    ut,         \* the harness applying single nodes and routing functions
    batch,      \* process_all_chunks: its corpus, loop position and locals
    api         \* the FastAPI process: batch_status, background tasks, answers

vars == <<llm, store, run, ncalls, ut, batch, api>>

(***************************************************************************)
(* Strings                                                                 *)
(***************************************************************************)
UpperChars == "ABCDEFGHIJKLMNOPQRSTUVWXYZ"
LowerChars == "abcdefghijklmnopqrstuvwxyz"
DigitChars == "0123456789"
SpaceChars == " \n\t"

CharAt(s, i) == SubSeq(s, i, i)

CharsOf(s) == {CharAt(s, i) : i \in 1..Len(s)}
UpperSet == CharsOf(UpperChars)
LowerSet == CharsOf(LowerChars)
DigitSet == CharsOf(DigitChars)
SpaceSet == CharsOf(SpaceChars)

LowerMap == [c \in UpperSet |->
                CharAt(LowerChars, CHOOSE i \in 1..Len(UpperChars) : CharAt(UpperChars, i) = c)]
LowerChar(c) == IF c \in UpperSet THEN LowerMap[c] ELSE c

\* str.lower()
RECURSIVE Lower(_)
Lower(s) ==
    IF Len(s) = 0 THEN ""
    ELSE IF Len(s) = 1 THEN LowerChar(s)
    ELSE LET m == Len(s) \div 2
         IN  Lower(SubSeq(s, 1, m)) \o Lower(SubSeq(s, m + 1, Len(s)))

\* t in s
Contains(s, t) ==
    \E i \in 1..(Len(s) - Len(t) + 1) : SubSeq(s, i, i + Len(t) - 1) = t

\* s.startswith(t)
StartsWith(s, t) == Len(t) <= Len(s) /\ SubSeq(s, 1, Len(t)) = t

\* s[:n]
Prefix(s, n) == IF Len(s) <= n THEN s ELSE SubSeq(s, 1, n)

\* index of the first occurrence of t in s at or after position from; 0 if none
FindFrom(s, t, from) ==
    LET hits == {i \in from..(Len(s) - Len(t) + 1) : SubSeq(s, i, i + Len(t) - 1) = t}
    IN  IF hits = {} THEN 0 ELSE CHOOSE i \in hits : \A j \in hits : i <= j

\* s.replace(old, new): every non-overlapping occurrence, left to right
RECURSIVE Replace(_, _, _)
Replace(s, old, new) ==
    LET i == FindFrom(s, old, 1)
    IN  IF i = 0 THEN s
        ELSE SubSeq(s, 1, i - 1) \o new
             \o Replace(SubSeq(s, i + Len(old), Len(s)), old, new)

IsSpace(c) == c \in SpaceSet

\* s.strip()
RECURSIVE LStrip(_)
LStrip(s) ==
    IF s # "" /\ IsSpace(CharAt(s, 1)) THEN LStrip(SubSeq(s, 2, Len(s))) ELSE s
RECURSIVE RStrip(_)
RStrip(s) ==
    IF s # "" /\ IsSpace(CharAt(s, Len(s))) THEN RStrip(SubSeq(s, 1, Len(s) - 1)) ELSE s
Strip(s) == RStrip(LStrip(s))

\* s.strip(chars)
RECURSIVE StripChars(_, _)
StripChars(s, chars) ==
    IF s # "" /\ Contains(chars, CharAt(s, 1)) THEN StripChars(SubSeq(s, 2, Len(s)), chars)
    ELSE IF s # "" /\ Contains(chars, CharAt(s, Len(s)))
         THEN StripChars(SubSeq(s, 1, Len(s) - 1), chars)
         ELSE s

\* s.split('\n')
RECURSIVE SplitLines(_)
SplitLines(s) ==
    LET i == FindFrom(s, "\n", 1)
    IN  IF i = 0 THEN <<s>>
        ELSE <<SubSeq(s, 1, i - 1)>> \o SplitLines(SubSeq(s, i + 1, Len(s)))

(***************************************************************************)
(* Regular expressions, matched the way Python's re does under             *)
(* re.IGNORECASE: a pattern is a sequence of items, tried by backtracking  *)
(* with greedy quantifiers and ordered alternatives.  The text handed to   *)
(* the matcher is lower-cased, the literals are written lower-case.        *)
(***************************************************************************)
Lit(s)          == [k |-> "lit", s |-> s]
Cls(c, lo, hi)  == [k |-> "cls", c |-> c, lo |-> lo, hi |-> hi]  \* hi < 0: unbounded
Alt(a)          == [k |-> "alt", a |-> a]
Open            == [k |-> "open"]
Close           == [k |-> "close"]

InClass(c, ch) ==
    CASE c = "space"  -> IsSpace(ch)
      [] c = "digit"  -> ch \in DigitSet
      [] c = "alpha"  -> ch \in LowerSet
      [] c = "notrp"  -> ch # ")"
      [] OTHER        -> ch = c

\* the number of consecutive characters of class c in t from pos, at most cap
RECURSIVE ClassRun(_, _, _, _)
ClassRun(c, t, pos, cap) ==
    IF cap = 0 \/ pos > Len(t) \/ ~InClass(c, CharAt(t, pos)) THEN 0
    ELSE 1 + ClassRun(c, t, pos + 1, cap - 1)

\* the first match of items i.. of p in t at pos, in backtracking order:
\* <<>> or <<[end, cs, ce]>> (the next position and the span of group 1)
RECURSIVE Match(_, _, _, _, _, _), TryCount(_, _, _, _, _, _, _, _), TryAlt(_, _, _, _, _, _, _)
Match(p, i, t, pos, cs, ce) ==
    IF i > Len(p) THEN <<[end |-> pos, cs |-> cs, ce |-> ce]>>
    ELSE LET it == p[i] IN
         CASE it.k = "open"  -> Match(p, i + 1, t, pos, pos, ce)
           [] it.k = "close" -> Match(p, i + 1, t, pos, cs, pos)
           [] it.k = "lit"   ->
                IF pos + Len(it.s) - 1 <= Len(t) /\ SubSeq(t, pos, pos + Len(it.s) - 1) = it.s
                THEN Match(p, i + 1, t, pos + Len(it.s), cs, ce)
                ELSE <<>>
           [] it.k = "cls"   ->
                TryCount(p, i, t, pos, cs, ce,
                         ClassRun(it.c, t, pos, IF it.hi < 0 THEN Len(t) ELSE it.hi), it.lo)
           [] it.k = "alt"   -> TryAlt(p, i, t, pos, cs, ce, 1)
TryCount(p, i, t, pos, cs, ce, n, lo) ==
    IF n < lo THEN <<>>
    ELSE LET r == Match(p, i + 1, t, pos + n, cs, ce)
         IN  IF r # <<>> THEN r ELSE TryCount(p, i, t, pos, cs, ce, n - 1, lo)
TryAlt(p, i, t, pos, cs, ce, k) ==
    IF k > Len(p[i].a) THEN <<>>
    ELSE LET a == p[i].a[k]
             r == IF pos + Len(a) - 1 <= Len(t) /\ SubSeq(t, pos, pos + Len(a) - 1) = a
                  THEN Match(p, i + 1, t, pos + Len(a), cs, ce)
                  ELSE <<>>
         IN  IF r # <<>> THEN r ELSE TryAlt(p, i, t, pos, cs, ce, k + 1)

\* the leftmost position at or after from where p matches; 0 if none
MatchFrom(p, t, from) ==
    LET hits == {i \in from..(Len(t) + 1) : Match(p, 1, t, i, 0, 0) # <<>>}
    IN  IF hits = {} THEN 0 ELSE CHOOSE i \in hits : \A j \in hits : i <= j

\* re.search(pattern, text, re.IGNORECASE) is not None, given text.lower()
Search(p, lowered) == MatchFrom(p, lowered, 1) # 0

\* re.findall(pattern, text, re.IGNORECASE) for a pattern with one group
RECURSIVE FindAllFrom(_, _, _, _)
FindAllFrom(p, text, t, from) ==
    LET at == MatchFrom(p, t, from)
    IN  IF at = 0 THEN <<>>
        ELSE LET m == Match(p, 1, t, at, 0, 0)[1]
             IN  <<SubSeq(text, m.cs, m.ce - 1)>>
                 \o FindAllFrom(p, text, t, IF m.end > at THEN m.end ELSE at + 1)
FindAll(p, text, lowered) == FindAllFrom(p, text, lowered, 1)

(***************************************************************************)
(* agents/config.py                                                        *)
(***************************************************************************)
Pat(src, items) == [src |-> src, items |-> items]

INTERNAL_REF_PATTERNS == <<
    Pat("regulation\\s+(\\d+[A-Z]?)",
        <<Lit("regulation"), Cls("space", 1, -1), Open, Cls("digit", 1, -1),
          Cls("alpha", 0, 1), Close>>),
    Pat("sub-regulation\\s*\\((\\d+)\\)",
        <<Lit("sub-regulation"), Cls("space", 0, -1), Lit("("), Open,
          Cls("digit", 1, -1), Close, Lit(")")>>),
    Pat("clause\\s*\\(([a-z]+)\\)",
        <<Lit("clause"), Cls("space", 0, -1), Lit("("), Open,
          Cls("alpha", 1, -1), Close, Lit(")")>>),
    Pat("as per\\s+regulation\\s+(\\d+)",
        <<Lit("as per"), Cls("space", 1, -1), Lit("regulation"), Cls("space", 1, -1),
          Open, Cls("digit", 1, -1), Close>>),
    Pat("under\\s+regulation\\s+(\\d+)",
        <<Lit("under"), Cls("space", 1, -1), Lit("regulation"), Cls("space", 1, -1),
          Open, Cls("digit", 1, -1), Close>>),
    Pat("referred to in\\s+regulation\\s+(\\d+)",
        <<Lit("referred to in"), Cls("space", 1, -1), Lit("regulation"),
          Cls("space", 1, -1), Open, Cls("digit", 1, -1), Close>>),
    Pat("specified in\\s+regulation\\s+(\\d+)",
        <<Lit("specified in"), Cls("space", 1, -1), Lit("regulation"),
          Cls("space", 1, -1), Open, Cls("digit", 1, -1), Close>>),
    Pat("Schedule\\s+(I|II|III|First|Second|Third)",
        <<Lit("schedule"), Cls("space", 1, -1), Open,
          Alt(<<"i", "ii", "iii", "first", "second", "third">>), Close>>) >>

EXTERNAL_REF_PATTERNS == <<
    Pat("Securities and Exchange Board of India Act",
        <<Lit("securities and exchange board of india act")>>),
    Pat("SEBI Act", <<Lit("sebi act")>>),
    Pat("Companies Act", <<Lit("companies act")>>),
    Pat("Securities Contracts? \\(Regulation\\) Act",
        <<Lit("securities contract"), Cls("s", 0, 1), Lit(" (regulation) act")>>),
    Pat("Banking Regulation[s]? Act",
        <<Lit("banking regulation"), Cls("s", 0, 1), Lit(" act")>>),
    Pat("Reserve Bank of India", <<Lit("reserve bank of india")>>),
    Pat("RBI", <<Lit("rbi")>>),
    Pat("SEBI \\([^)]+\\) Regulations",
        <<Lit("sebi ("), Cls("notrp", 1, -1), Lit(") regulations")>>) >>

\* ABBREVIATION_EXPANSIONS, in insertion order
ABBREVIATION_EXPANSIONS == <<
    <<"AMC", "Asset Management Company">>,
    <<"MF", "Mutual Fund">>,
    <<"FPI", "Foreign Portfolio Investor">>,
    <<"FII", "Foreign Institutional Investor">>,
    <<"ETF", "Exchange Traded Fund">>,
    <<"SEBI", "Securities and Exchange Board of India">> >>

\* the entries of SEBI_GLOSSARY that glossary_node can look up
SEBI_GLOSSARY == [
    client |-> "any person who has entered into an agreement with a custodian to avail of custodial services",
    custodian |-> "any person who carries on or proposes to carry on the business of providing custodial services",
    securities |-> "as defined in clause (h) of section 2 of the Securities Contracts (Regulation) Act, 1956",
    goods |-> "goods notified by Central Government under clause (bc) of section 2 of Securities Contracts (Regulation) Act, 1956 forming underlying of commodity derivative contract" ]
    @@ ("custodial services" :> "safekeeping of securities or goods or gold or silver and providing services incidental thereto including maintaining accounts, collecting benefits, keeping client informed, and maintaining records")
    @@ ("custody account" :> "an account of a client maintained by a custodian in respect of securities")

\* the fields of the preloaded profiles that a node reads
HDFC_AMC_CONTEXT == [
    entity_name |-> "HDFC Asset Management Company Limited",
    role_in_custodian_regulations |-> "Client",
    has_gold_etf |-> TRUE,
    has_silver_etf |-> TRUE,
    custodian_count |-> 2 ]

NAVI_AMC_CONTEXT == [
    entity_name |-> "Navi AMC Limited",
    role_in_custodian_regulations |-> "Client",
    has_gold_etf |-> FALSE,
    has_silver_etf |-> FALSE,
    custodian_count |-> 1 ]

\* ORG_CONTEXTS, in insertion order
ORG_CONTEXTS == <<
    <<"HDFC AMC", HDFC_AMC_CONTEXT>>,
    <<"HDFC", HDFC_AMC_CONTEXT>>,
    <<"HDFC Mutual Fund", HDFC_AMC_CONTEXT>>,
    <<"Navi AMC", NAVI_AMC_CONTEXT>>,
    <<"Navi", NAVI_AMC_CONTEXT>>,
    <<"Navi Mutual Fund", NAVI_AMC_CONTEXT>> >>

(***************************************************************************)
(* State dictionaries and collaborators                                    *)
(***************************************************************************)
\* Optional values: None is <<>>, a value v is <<v>>
None == <<>>
Some(v) == <<v>>

EmptyDict == [k \in {} |-> TRUE]
Has(d, k) == k \in DOMAIN d
\* d.get(k, default)
Get(d, k, default) == IF k \in DOMAIN d THEN d[k] ELSE default
\* {**d, **u}
Merge(d, u) == [k \in DOMAIN d \cup DOMAIN u |-> IF k \in DOMAIN u THEN u[k] ELSE d[k]]

\* what a node call ends with: the partial state update it returns, or an
\* exception; log lists the collaborator calls it made, in order
Ok(upd, log) == [raised |-> FALSE, upd |-> upd, log |-> log]
Raised(log) == [raised |-> TRUE, upd |-> EmptyDict, log |-> log]

LlmCall(what) == [svc |-> "llm", arg |-> what, top_k |-> 0]
PineconeCall(query, top_k) == [svc |-> "pinecone", arg |-> query, top_k |-> top_k]
ExaCall(query) == [svc |-> "exa", arg |-> query, top_k |-> 0]

\* a reply of llm.invoke: an exception, or a message with a content
LlmRaises == [raised |-> TRUE, content |-> ""]
LlmReply(content) == [raised |-> FALSE, content |-> content]
\* an oracle whose missing handle answers instead of raising
InvokeAnsweringWithoutHandle(h, reply) == reply

\* llm.invoke(...) on the module-level handle h; h is None when neither client
\* could be constructed, and the call is then an AttributeError
Invoke(h, reply) == IF h = "none" THEN LlmRaises ELSE reply

\* a result of query_pinecone: an exception, or results['matches']
PineconeRaises == [raised |-> TRUE, matches |-> <<>>]
PineconeMatches(ms) == [raised |-> FALSE, matches |-> ms]
MatchOf(id, text) == [id |-> id, metadata |-> [text |-> text]]
MatchNoText(id) == [id |-> id, metadata |-> EmptyDict]

\* a result of query_exa, by kind: "raise" (the client call raises),
\* "nochoices" (a completion whose choices list is empty), "choices" (a
\* completion whose first choice carries content); "unused" stands where a
\* node makes no web search
Web(kind, content) == [kind |-> kind, content |-> content]
QueryExaResults ==
    {Web("raise", ""), Web("nochoices", ""),
     Web("choices", "A SEBI registered asset management company.")}
\* hasattr(result, 'choices') and result.choices
\* a test that takes every reply that did not raise as one with choices
HasChoicesUnlessRaised(w) == w.kind # "raise"

HasChoices(w) == w.kind = "choices"

(***************************************************************************)
(* agents/graph_nodes.py: the nodes                                        *)
(***************************************************************************)
\* the phrase list without "shall mean"
DefinitionPhrasesWithoutShallMean == <<"\"means\"", "'means'", "means and includes">>

DefinitionPhrases == <<"\"means\"", "'means'", "shall mean", "means and includes">>

\* a normalisation that lets an unrecognized reply through as the category
NormalizeCategoryPassingThrough(content) ==
    LET category == Replace(Replace(Lower(Strip(content)), "'", ""), "\"", "")
    IN  IF Contains(category, "definition") THEN "definition"
        ELSE IF Contains(category, "internal") THEN "internal_ref"
        ELSE IF Contains(category, "external") THEN "external_ref"
        ELSE category

\* the normalisation of the oracle's reply in classifier_node
NormalizeCategory(content) ==
    LET category == Replace(Replace(Lower(Strip(content)), "'", ""), "\"", "")
    IN  IF Contains(category, "definition") THEN "definition"
        ELSE IF Contains(category, "internal") THEN "internal_ref"
        ELSE IF Contains(category, "external") THEN "external_ref"
        ELSE "direct_req"

\* the three fast-path tests; the definition test is made on clause.lower(),
\* the two pattern tests on the clause under re.IGNORECASE
MatchesDefinitionPhrase(clause_lower) ==
    \E i \in 1..Len(DefinitionPhrases) : Contains(clause_lower, DefinitionPhrases[i])
\* a test that takes the bare word for an internal reference
MatchesInternalWord(clause_lower) == Contains(clause_lower, "regulation")

MatchesInternalPattern(clause_lower) ==
    \E i \in 1..Len(INTERNAL_REF_PATTERNS) : Search(INTERNAL_REF_PATTERNS[i].items, clause_lower)
MatchesExternalPattern(clause_lower) ==
    \E i \in 1..Len(EXTERNAL_REF_PATTERNS) : Search(EXTERNAL_REF_PATTERNS[i].items, clause_lower)

\* a classifier that tries the internal patterns before the definition phrases
classifier_node_patterns_first(state, h, o) ==
    LET clause == state["clause_text"]
        clause_lower == Lower(clause)
    IN  IF MatchesInternalPattern(clause_lower)
        THEN Ok([clause_type |-> "internal_ref"], <<>>)
        ELSE IF MatchesDefinitionPhrase(clause_lower)
        THEN Ok([clause_type |-> "definition"], <<>>)
        ELSE IF MatchesExternalPattern(clause_lower)
        THEN Ok([clause_type |-> "external_ref"], <<>>)
        ELSE LET response == Invoke(h, o.reply)
                 log == <<LlmCall(Prefix(clause, 500))>>
             IN  IF response.raised THEN Raised(log)
                 ELSE Ok([clause_type |-> NormalizeCategory(response.content)], log)

classifier_node(state, h, o) ==
    LET clause == state["clause_text"]
        clause_lower == Lower(clause)
    IN  IF MatchesDefinitionPhrase(clause_lower)
        THEN Ok([clause_type |-> "definition"], <<>>)
        ELSE IF MatchesInternalPattern(clause_lower)
        THEN Ok([clause_type |-> "internal_ref"], <<>>)
        ELSE IF MatchesExternalPattern(clause_lower)
        THEN Ok([clause_type |-> "external_ref"], <<>>)
        ELSE LET response == Invoke(h, o.reply)
                 log == <<LlmCall(Prefix(clause, 500))>>
             IN  IF response.raised THEN Raised(log)
                 ELSE Ok([clause_type |-> NormalizeCategory(response.content)], log)

ActionableIndicators == <<"shall", "must", "required", "obligat", "comply", "ensure">>

\* a filter that keeps the clause's own chunk
OtherClausesUnfiltered(matches, chunk_id) == matches

\* [m for m in matches if m['id'] != chunk_id]
OtherClauses(matches, chunk_id) == SelectSeq(matches, LAMBDA m : m.id # chunk_id)

\* an indicator test that does not lower-case the match text
HasIndicatorCaseSensitive(match) ==
    LET match_text == Get(match.metadata, "text", "")
    IN  \E i \in 1..Len(ActionableIndicators) : Contains(match_text, ActionableIndicators[i])

HasIndicator(match) ==
    LET match_text == Lower(Get(match.metadata, "text", ""))
    IN  \E i \in 1..Len(ActionableIndicators) : Contains(match_text, ActionableIndicators[i])

\* an analysis that reports dependent actionables for a new definition too
definition_analysis_node_reporting_dependents(state, h, o) ==
    LET response == Invoke(h, o.reply)
        log1 == <<LlmCall(Prefix(state["clause_text"], 500))>>
        term == StripChars(Strip(response.content), "\"'")
        log2 == Append(log1, PineconeCall(term, 5))
    IN  IF response.raised THEN Raised(log1)
        ELSE IF o.q[1].raised THEN Raised(log2)
        ELSE LET other_clauses == OtherClauses(o.q[1].matches, Get(state, "chunk_id", ""))
             IN  Ok([term_defined |-> term,
                     is_new_definition |-> Len(other_clauses) = 0,
                     other_clauses_use_definition |-> Len(other_clauses) > 0,
                     dependent_clauses_have_actionables |->
                         \E i \in 1..Len(o.q[1].matches) : HasIndicator(o.q[1].matches[i])],
                    log2)

definition_analysis_node(state, h, o) ==
    LET response == Invoke(h, o.reply)
        log1 == <<LlmCall(Prefix(state["clause_text"], 500))>>
    IN  IF response.raised THEN Raised(log1)
        ELSE
        LET term == StripChars(Strip(response.content), "\"'")
            log2 == Append(log1, PineconeCall(term, 5))
            found == o.q[1]
        IN  IF found.raised THEN Raised(log2)
            ELSE
            LET other_clauses == OtherClauses(found.matches, Get(state, "chunk_id", ""))
            IN  IF Len(other_clauses) = 0
                THEN Ok([term_defined |-> term,
                         is_new_definition |-> TRUE,
                         other_clauses_use_definition |-> FALSE,
                         dependent_clauses_have_actionables |-> FALSE], log2)
                ELSE Ok([term_defined |-> term,
                         is_new_definition |-> FALSE,
                         other_clauses_use_definition |-> TRUE,
                         dependent_clauses_have_actionables |->
                             \E i \in 1..Len(other_clauses) : HasIndicator(other_clauses[i])],
                        log2)

\* referenced_regs: the captures of every pattern, pattern by pattern
RECURSIVE ExtractRefs(_, _, _)
ExtractRefs(clause, lowered, i) ==
    IF i > Len(INTERNAL_REF_PATTERNS) THEN <<>>
    ELSE FindAll(INTERNAL_REF_PATTERNS[i].items, clause, lowered)
         \o ExtractRefs(clause, lowered, i + 1)

\* for m in matches: resolved_text += "\n" + text[:500]
RECURSIVE AppendRelated(_, _, _)
AppendRelated(text, matches, i) ==
    IF i > Len(matches) THEN text
    ELSE AppendRelated(text \o "\n" \o Prefix(Get(matches[i].metadata, "text", ""), 500),
                       matches, i + 1)

\* for ref in referenced_regs[:3]: one targeted query each, the k-th query
\* answered by o.q[k]
RECURSIVE FetchRefs(_, _, _, _, _)
FetchRefs(refs, k, o, text, log) ==
    IF k > Len(refs) THEN [raised |-> FALSE, text |-> text, log |-> log]
    ELSE LET search_query == "regulation " \o refs[k]
             log2 == Append(log, PineconeCall(search_query, 1))
             found == o.q[k]
         IN  IF found.raised THEN [raised |-> TRUE, text |-> text, log |-> log2]
             ELSE FetchRefs(refs, k + 1, o,
                            IF Len(found.matches) > 0
                            THEN text \o "\nRegulation " \o refs[k] \o ":\n"
                                 \o Prefix(Get(found.matches[1].metadata, "text", ""), 500)
                            ELSE text,
                            log2)

\* a resolver that makes the semantic lookup whether or not it found citations
internal_reference_node_always_semantic(state, h, o) ==
    LET clause == state["clause_text"]
        log == <<PineconeCall(clause, 2)>>
    IN  IF o.q[1].raised THEN Raised(log)
        ELSE Ok([resolved_text |-> clause,
                 referenced_regulations |-> ExtractRefs(clause, Lower(clause), 1)], log)

internal_reference_node(state, h, o) ==
    LET clause == state["clause_text"]
        referenced_regs == ExtractRefs(clause, Lower(clause), 1)
    IN  IF Len(referenced_regs) = 0
        THEN LET log == <<PineconeCall(clause, 2)>>
                 found == o.q[1]
             IN  IF found.raised THEN Raised(log)
                 ELSE Ok([resolved_text |->
                              IF Len(found.matches) > 0
                              THEN AppendRelated(clause \o "\n\n[RELATED REGULATIONS]\n",
                                                 found.matches, 1)
                              ELSE clause,
                          referenced_regulations |-> referenced_regs], log)
        ELSE LET f == FetchRefs(SubSeq(referenced_regs, 1, IF Len(referenced_regs) < 3
                                                           THEN Len(referenced_regs) ELSE 3),
                                1, o,
                                clause \o "\n\n[REFERENCED REGULATIONS FROM SAME CIRCULAR]\n",
                                <<>>)
             IN  IF f.raised THEN Raised(f.log)
                 ELSE Ok([resolved_text |-> f.text,
                          referenced_regulations |-> referenced_regs], f.log)

\* external_refs: the source strings of the patterns that match, in order
RECURSIVE ExternalRefs(_, _)
ExternalRefs(clause_lower, i) ==
    IF i > Len(EXTERNAL_REF_PATTERNS) THEN <<>>
    ELSE (IF Search(EXTERNAL_REF_PATTERNS[i].items, clause_lower)
          THEN <<EXTERNAL_REF_PATTERNS[i].src>> ELSE <<>>)
         \o ExternalRefs(clause_lower, i + 1)

\* the fixed snippets of the regulation library, each added on a
\* case-sensitive test of the clause
LibrarySnippets(clause) ==
    (IF Contains(clause, "Companies Act")
     THEN "- Companies Act, 2013: Defines corporate governance, change in control\n" ELSE "")
    \o (IF Contains(clause, "SEBI Act")
           \/ Contains(clause, "Securities and Exchange Board of India Act")
        THEN "- SEBI Act, 1992: Primary securities regulation act\n" ELSE "")
    \o (IF Contains(clause, "Securities Contracts")
        THEN "- Securities Contracts (Regulation) Act, 1956: Defines securities\n" ELSE "")
    \o (IF Contains(clause, "Banking")
        THEN "- Banking Regulation Act, 1949: Banking company definitions\n" ELSE "")
    \o (IF Contains(clause, "RBI") \/ Contains(clause, "Reserve Bank")
        THEN "- RBI Guidelines: Banking and forex regulations\n" ELSE "")

external_reference_node(state, h, o) ==
    LET clause == state["clause_text"]
        external_refs == ExternalRefs(Lower(clause), 1)
        library == clause \o "\n\n[EXTERNAL REGULATION LIBRARY]\n" \o LibrarySnippets(clause)
        log == IF Len(external_refs) > 0
               THEN <<ExaCall(external_refs[1] \o " SEBI compliance requirements")>>
               ELSE <<>>
    IN  Ok([resolved_text |->
                IF Len(external_refs) > 0 /\ HasChoices(o.web)
                THEN library \o "\n[Additional Context from Web]\n" \o Prefix(o.web.content, 500)
                ELSE library,
            referenced_regulations |-> external_refs], log)

\* an abbreviation loop that rewrites even when the expansion is already there
RECURSIVE ExpandAbbreviationsRegardless(_, _, _)
ExpandAbbreviationsRegardless(normalized, terms_used, i) ==
    IF i > Len(ABBREVIATION_EXPANSIONS) THEN <<normalized, terms_used>>
    ELSE LET abbrev == ABBREVIATION_EXPANSIONS[i][1]
             expansion == ABBREVIATION_EXPANSIONS[i][2]
         IN  IF Contains(normalized, abbrev)
             THEN ExpandAbbreviationsRegardless(
                      Replace(normalized, abbrev, abbrev \o " (" \o expansion \o ")"),
                      Merge(terms_used, abbrev :> expansion), i + 1)
             ELSE ExpandAbbreviationsRegardless(normalized, terms_used, i + 1)

\* one pass of the abbreviation loop from entry i on: <<text, terms_used>>
RECURSIVE ExpandAbbreviations(_, _, _)
ExpandAbbreviations(normalized, terms_used, i) ==
    IF i > Len(ABBREVIATION_EXPANSIONS) THEN <<normalized, terms_used>>
    ELSE LET abbrev == ABBREVIATION_EXPANSIONS[i][1]
             expansion == ABBREVIATION_EXPANSIONS[i][2]
         IN  IF Contains(normalized, abbrev) /\ ~Contains(normalized, expansion)
             THEN ExpandAbbreviations(
                      Replace(normalized, abbrev, abbrev \o " (" \o expansion \o ")"),
                      Merge(terms_used, abbrev :> expansion), i + 1)
             ELSE ExpandAbbreviations(normalized, terms_used, i + 1)

KeyTerms == <<"custodian", "client", "custodial services", "custody account",
              "securities", "goods">>

\* the key-term loop, given normalized.lower()
RECURSIVE AddKeyTerms(_, _, _)
AddKeyTerms(normalized, terms_used, i) ==
    IF i > Len(KeyTerms) THEN terms_used
    ELSE LET term == KeyTerms[i]
         IN  AddKeyTerms(normalized,
                         IF Contains(normalized, Lower(term)) /\ term \in DOMAIN SEBI_GLOSSARY
                         THEN Merge(terms_used, term :> SEBI_GLOSSARY[term])
                         ELSE terms_used,
                         i + 1)

\* state.get("resolved_text") or state["clause_text"]
GlossaryInput(state) ==
    IF Get(state, "resolved_text", "") # "" THEN state["resolved_text"] ELSE state["clause_text"]

\* a normalizer that keeps only the first half of its input
glossary_node_truncating(state, h, o) ==
    LET text == GlossaryInput(state)
    IN  Ok([normalized_text |-> Prefix(text, Len(text) \div 2),
            glossary_terms_used |-> EmptyDict], <<>>)

\* a normalizer that also stores its output as the resolved text
glossary_node_writing_resolved_text(state, h, o) ==
    LET text == GlossaryInput(state)
        expanded == ExpandAbbreviations(text, EmptyDict, 1)
    IN  Ok([normalized_text |-> expanded[1],
            resolved_text |-> expanded[1],
            glossary_terms_used |-> AddKeyTerms(Lower(expanded[1]), expanded[2], 1)], <<>>)

glossary_node(state, h, o) ==
    LET text == GlossaryInput(state)
        expanded == ExpandAbbreviations(text, EmptyDict, 1)
    IN  Ok([normalized_text |-> expanded[1],
            glossary_terms_used |-> AddKeyTerms(Lower(expanded[1]), expanded[2], 1)], <<>>)

\* the first registry entry whose key occurs in org_name, ignoring case; 0 if none
\* a registry lookup that compares without folding case
RegistryHitCaseSensitive(org_name) ==
    LET hits == {i \in 1..Len(ORG_CONTEXTS) : Contains(org_name, ORG_CONTEXTS[i][1])}
    IN  IF hits = {} THEN 0 ELSE CHOOSE i \in hits : \A j \in hits : i <= j

RegistryHit(org_name) ==
    LET hits == {i \in 1..Len(ORG_CONTEXTS) :
                    Contains(Lower(org_name), Lower(ORG_CONTEXTS[i][1]))}
    IN  IF hits = {} THEN 0 ELSE CHOOSE i \in hits : \A j \in hits : i <= j

org_context_node(state, h, o) ==
    LET org_name == Get(state, "org_name", "")
        hit == RegistryHit(org_name)
    IN  IF hit # 0 THEN Ok([org_context |-> Some(ORG_CONTEXTS[hit][2])], <<>>)
        ELSE LET log == <<ExaCall(org_name \o " mutual fund AMC SEBI registration schemes")>>
             IN  IF o.web.kind = "raise"
                 THEN Ok([org_context |-> Some([entity_name |-> org_name,
                                                role_in_custodian_regulations |-> "Client",
                                                compliance_factors |-> EmptyDict])], log)
                 ELSE IF HasChoices(o.web)
                 THEN Ok([org_context |-> Some([entity_name |-> org_name,
                                                role_in_custodian_regulations |-> "Client",
                                                search_result |-> Prefix(o.web.content, 1000),
                                                compliance_factors |-> [unknown |-> TRUE]])], log)
                 ELSE Ok([org_context |-> None], log)

\* the actionables parsed from the lines of a reply, in order
RECURSIVE ParseLines(_, _)
ParseLines(lines, i) ==
    IF i > Len(lines) THEN <<>>
    ELSE LET line == lines[i]
             action == Strip(Replace(line, "ACTIONABLE:", ""))
         IN  (IF StartsWith(Strip(line), "ACTIONABLE:") /\ action # ""
              THEN <<action>> ELSE <<>>)
             \o ParseLines(lines, i + 1)

\* the parse of the oracle's reply in actionable_node
ParseActionables(content) ==
    LET result == Strip(content)
    IN  IF StartsWith(result, "NOT_APPLICABLE")
        THEN [actionables |-> <<>>, is_applicable |-> FALSE]
        ELSE [actionables |-> ParseLines(SplitLines(result), 1), is_applicable |-> TRUE]

\* state.get("normalized_text") or state.get("resolved_text") or state["clause_text"]
ActionableInput(state) ==
    IF Get(state, "normalized_text", "") # "" THEN state["normalized_text"]
    ELSE IF Get(state, "resolved_text", "") # "" THEN state["resolved_text"]
    ELSE state["clause_text"]

actionable_node(state, h, o) ==
    LET text == ActionableInput(state)
        org_context == Get(state, "org_context", Some(EmptyDict))
    IN  IF org_context = None THEN Raised(<<>>)    \* None has no .get
        ELSE
        LET log == <<LlmCall(Prefix(text, 1500))>>
            response == Invoke(h, o.reply)
        IN  IF response.raised THEN Raised(log)
            ELSE LET parsed == ParseActionables(response.content)
                 IN  Ok([actionables |-> parsed.actionables,
                         actionable_count |-> Len(parsed.actionables),
                         is_applicable |-> parsed.is_applicable], log)

\* a terminal node that miscounts its empty list
no_actionable_node_miscounting(state, h, o) ==
    Ok([actionables |-> <<>>, actionable_count |-> 1, is_applicable |-> FALSE], <<>>)

no_actionable_node(state, h, o) ==
    Ok([actionables |-> <<>>, actionable_count |-> 0, is_applicable |-> FALSE], <<>>)

(***************************************************************************)
(* agents/graph_nodes.py: the routing functions                            *)
(***************************************************************************)
\* a classifier routing that sends internal references straight to the glossary
route_after_classifier_skipping_resolver(state) ==
    LET clause_type == Get(state, "clause_type", "direct_req")
    IN  CASE clause_type = "definition"   -> "definition_analysis"
          [] clause_type = "external_ref" -> "external_reference"
          [] OTHER                        -> "glossary"

\* a classifier routing that ends definitions without analysing them
route_after_classifier_ending_definitions(state) ==
    LET clause_type == Get(state, "clause_type", "direct_req")
    IN  CASE clause_type = "definition"   -> "no_actionable"
          [] clause_type = "internal_ref" -> "internal_reference"
          [] clause_type = "external_ref" -> "external_reference"
          [] OTHER                        -> "glossary"

route_after_classifier(state) ==
    LET clause_type == Get(state, "clause_type", "direct_req")
    IN  CASE clause_type = "definition"   -> "definition_analysis"
          [] clause_type = "internal_ref" -> "internal_reference"
          [] clause_type = "external_ref" -> "external_reference"
          [] clause_type = "direct_req"   -> "glossary"
          [] OTHER                        -> "glossary"

\* a definition routing that does not ask whether the dependent clauses
\* have actionables
route_after_definition_ignoring_deps(state) ==
    LET is_new == Get(state, "is_new_definition", FALSE)
        other_use == Get(state, "other_clauses_use_definition", FALSE)
    IN  IF is_new THEN "no_actionable"
        ELSE IF ~other_use THEN "no_actionable"
        ELSE "glossary"

route_after_definition(state) ==
    LET is_new == Get(state, "is_new_definition", FALSE)
        other_use == Get(state, "other_clauses_use_definition", FALSE)
        has_deps == Get(state, "dependent_clauses_have_actionables", FALSE)
    IN  IF is_new THEN "no_actionable"
        ELSE IF ~other_use THEN "no_actionable"
        ELSE IF ~has_deps THEN "no_actionable"
        ELSE "glossary"

(***************************************************************************)
(* agents/agent1.py: the graph                                             *)
(***************************************************************************)
NodeNames == {"classifier", "definition_analysis", "internal_reference",
              "external_reference", "glossary", "org_context", "actionable",
              "no_actionable"}

\* an edge set in which org_context leads back to glossary
StaticEdgeWithCycle(node) ==
    CASE node = "internal_reference" -> "glossary"
      [] node = "external_reference" -> "glossary"
      [] node = "glossary"           -> "org_context"
      [] node = "org_context"        -> "glossary"
      [] node = "actionable"         -> "END"
      [] node = "no_actionable"      -> "END"

\* an edge set in which glossary leads to actionable, past org_context
StaticEdgePastOrgContext(node) ==
    CASE node = "internal_reference" -> "glossary"
      [] node = "external_reference" -> "glossary"
      [] node = "glossary"           -> "actionable"
      [] node = "org_context"        -> "actionable"
      [] node = "actionable"         -> "END"
      [] node = "no_actionable"      -> "END"

\* an edge set in which no_actionable leads on to glossary
StaticEdgeFromNoActionable(node) ==
    CASE node = "internal_reference" -> "glossary"
      [] node = "external_reference" -> "glossary"
      [] node = "glossary"           -> "org_context"
      [] node = "org_context"        -> "actionable"
      [] node = "actionable"         -> "END"
      [] node = "no_actionable"      -> "glossary"

\* builder.add_edge(a, b): the unconditional edges
StaticEdge(node) ==
    CASE node = "internal_reference" -> "glossary"
      [] node = "external_reference" -> "glossary"
      [] node = "glossary"           -> "org_context"
      [] node = "org_context"        -> "actionable"
      [] node = "actionable"         -> "END"
      [] node = "no_actionable"      -> "END"

\* the path maps of the two add_conditional_edges calls are the identity on
\* the names the routing functions return
NextNode(node, state) ==
    CASE node = "classifier"          -> route_after_classifier(state)
      [] node = "definition_analysis" -> route_after_definition(state)
      [] OTHER                        -> StaticEdge(node)

(***************************************************************************)
(* agents/agent1.py: process_clause on the compiled graph.  The graph is   *)
(* compiled with a MemorySaver, so a stream call loads the latest          *)
(* checkpoint of its thread, writes the input over it, and saves a         *)
(* checkpoint after the input and after every node.                        *)
(***************************************************************************)
\* f"clause-{chunk_id or 'single'}"
ThreadId(chunk_id) == "clause-" \o (IF chunk_id = "" THEN "single" ELSE chunk_id)

InitialState(clause_text, org_name, chunk_id) ==
    [clause_text |-> clause_text, chunk_id |-> chunk_id, org_name |-> org_name,
     messages |-> <<>>]

\* the channel values a stream call starts from
LoadCheckpoint(saved, thread) == IF thread \in DOMAIN saved THEN saved[thread] ELSE EmptyDict

\* checkpointer.put: the thread's latest checkpoint becomes these values
SaveCheckpoint(saved, thread, values) ==
    [t \in DOMAIN saved \cup {thread} |-> IF t = thread THEN values ELSE saved[t]]

\* the dict process_clause returns from the last streamed state
ResultOf(chunk_id, final_state) ==
    [chunk_id |-> chunk_id,
     clause_type |-> Get(final_state, "clause_type", "unknown"),
     is_applicable |-> Get(final_state, "is_applicable", FALSE),
     actionables |-> Get(final_state, "actionables", <<>>),
     actionable_count |-> Get(final_state, "actionable_count", 0),
     term_defined |-> IF Has(final_state, "term_defined")
                      THEN Some(final_state["term_defined"]) ELSE None,
     referenced_regulations |-> Get(final_state, "referenced_regulations", <<>>)]

\* the record process_all_chunks appends when process_clause raised
ErrorRecordMarkedApplicable(chunk_id) ==
    [chunk_id |-> chunk_id, error |-> "error", is_applicable |-> TRUE,
     actionables |-> <<>>, actionable_count |-> 0]

ErrorRecord(chunk_id) ==
    [chunk_id |-> chunk_id, error |-> "error", is_applicable |-> FALSE,
     actionables |-> <<>>, actionable_count |-> 0]

IdleRun ==
    [pc |-> "idle", caller |-> "", clause_text |-> "", org_name |-> "", chunk_id |-> "",
     state |-> EmptyDict, path |-> <<>>, log |-> <<>>, written |-> {},
     overlapped |-> FALSE, result |-> EmptyDict]

\* no batch is running
IdleBatch ==
    [phase |-> "off", chunks |-> <<>>, org_name |-> "", skip_toc |-> TRUE,
     i |-> 1, results |-> <<>>, total_actionables |-> 0, applicable_chunks |-> 0,
     skipped_chunks |-> 0, summary |-> EmptyDict]

\* the server has just been started: batch_status = {}, no background task
IdleApi ==
    [batch_status |-> EmptyDict, tasks |-> <<>>, answers |-> <<>>,
     polled |-> EmptyDict]

(***************************************************************************)
(* Inputs and collaborator outcomes of the pipeline specification          *)
(***************************************************************************)
MaxCalls == 1           \* process_clause invocations of the caller in Spec
MaxSeqCalls == 2        \* process_clause invocations of the caller in SpecSeq

DefinitionClause == "\"Custodian\" shall mean any person who holds securities."
InternalClause == "As per regulation 17, the custodian shall enter into an agreement with the client."
ExternalClause == "A custodian registered under the Companies Act shall inform SEBI."
PlainClause == "The custodian shall maintain proper records for the AMC."

CallInputs ==
    { [caller |-> "api", clause_text |-> DefinitionClause, org_name |-> "HDFC AMC", chunk_id |-> ""],
      [caller |-> "api", clause_text |-> InternalClause, org_name |-> "HDFC AMC", chunk_id |-> ""],
      [caller |-> "api", clause_text |-> PlainClause, org_name |-> "Acme Trustees", chunk_id |-> ""],
      [caller |-> "batch", clause_text |-> ExternalClause, org_name |-> "Navi AMC", chunk_id |-> "c1"],
      [caller |-> "batch", clause_text |-> PlainClause, org_name |-> "Navi AMC", chunk_id |-> "c2"] }

ClassifierReplies ==
    {LlmRaises, LlmReply("direct_req"), LlmReply("definition"),
     LlmReply("'internal_ref'"), LlmReply("external_ref")}
TermReplies == {LlmRaises, LlmReply("\"custodian\"")}
ActionableReplies ==
    {LlmRaises,
     LlmReply("NOT_APPLICABLE: no gold or silver schemes"),
     LlmReply("ACTIONABLE: [VERIFY] Verify the custodian agreement\nACTIONABLE: [DOCUMENT] Keep the agreement on file"),
     LlmReply("No compliance items found.")}
Retrievals ==
    {PineconeRaises,
     PineconeMatches(<<>>),
     PineconeMatches(<<MatchOf("c1", "The custodian shall inform the Board.")>>),
     PineconeMatches(<<MatchOf("c3", "Custodian of securities.")>>)}

NoReply == LlmRaises
NoQueries == <<>>
NoWeb == Web("unused", "")

\* the outcomes of the collaborator calls a node may make
Outcomes(node) ==
    CASE node = "classifier" ->
             {[reply |-> rp, q |-> NoQueries, web |-> NoWeb] : rp \in ClassifierReplies}
      [] node = "definition_analysis" ->
             {[reply |-> rp, q |-> <<m>>, web |-> NoWeb] : rp \in TermReplies, m \in Retrievals}
      [] node = "internal_reference" ->
             {[reply |-> NoReply, q |-> <<m, m, m>>, web |-> NoWeb] : m \in Retrievals}
      [] node \in {"external_reference", "org_context"} ->
             {[reply |-> NoReply, q |-> NoQueries, web |-> w] : w \in QueryExaResults}
      [] node = "actionable" ->
             {[reply |-> rp, q |-> NoQueries, web |-> NoWeb] : rp \in ActionableReplies}
      [] OTHER -> {[reply |-> NoReply, q |-> NoQueries, web |-> NoWeb]}

(***************************************************************************)
(* The pipeline specification                                              *)
(***************************************************************************)
Running(r) == run[r].pc \in NodeNames
Free(r) == ~Running(r) /\ run[r].pc # "END" /\ run[r].pc # "raised"

\* a caller enters process_clause (process_single_clause for a request,
\* process_all_chunks for a chunk it does not skip): the stream call loads
\* the thread's checkpoint, applies the input and saves the result
Call(r, in) ==
    /\ Free(r)
    \* process_all_chunks skips a chunk whose stripped content is under 50 characters
    /\ in.caller = "batch" => Len(Strip(in.clause_text)) >= 50
    /\ LET thread == ThreadId(in.chunk_id)
           values == Merge(LoadCheckpoint(store, thread),
                           InitialState(in.clause_text, in.org_name, in.chunk_id))
       IN  /\ run' = [run EXCEPT ![r] =
                        [pc |-> "classifier", caller |-> in.caller,
                         clause_text |-> in.clause_text, org_name |-> in.org_name,
                         chunk_id |-> in.chunk_id, state |-> values, path |-> <<>>,
                         log |-> <<>>, written |-> {},
                         overlapped |-> \E q \in DOMAIN run \ {r} :
                                           Running(q) /\ ThreadId(run[q].chunk_id) = thread,
                         result |-> EmptyDict]]
           /\ store' = SaveCheckpoint(store, thread, values)
    /\ ncalls' = ncalls + 1
    /\ UNCHANGED <<llm, ut, batch, api>>

\* one superstep: the node at pc has run on the channel values with result
\* res; its update is merged and checkpointed, or its exception leaves the
\* stream call
Step(r, node, res) ==
    /\ run[r].pc = node
    /\ LET values == Merge(run[r].state, res.upd)
       IN  IF res.raised
           THEN /\ run' = [run EXCEPT ![r].pc = "raised",
                                      ![r].path = Append(@, node),
                                      ![r].log = @ \o res.log]
                /\ UNCHANGED store
           ELSE /\ run' = [run EXCEPT ![r].pc = NextNode(node, values),
                                      ![r].state = values,
                                      ![r].path = Append(@, node),
                                      ![r].log = @ \o res.log,
                                      ![r].written = @ \cup DOMAIN res.upd]
                /\ store' = SaveCheckpoint(store, ThreadId(run[r].chunk_id), values)
    /\ UNCHANGED <<llm, ncalls, ut, batch, api>>

Classifier(r) ==
    /\ run[r].pc = "classifier"
    /\ \E o \in Outcomes("classifier") :
         Step(r, "classifier", classifier_node(run[r].state, llm, o))
DefinitionAnalysis(r) ==
    /\ run[r].pc = "definition_analysis"
    /\ \E o \in Outcomes("definition_analysis") :
         Step(r, "definition_analysis", definition_analysis_node(run[r].state, llm, o))
InternalReference(r) ==
    /\ run[r].pc = "internal_reference"
    /\ \E o \in Outcomes("internal_reference") :
         Step(r, "internal_reference", internal_reference_node(run[r].state, llm, o))
ExternalReference(r) ==
    /\ run[r].pc = "external_reference"
    /\ \E o \in Outcomes("external_reference") :
         Step(r, "external_reference", external_reference_node(run[r].state, llm, o))
Glossary(r) ==
    /\ run[r].pc = "glossary"
    /\ \E o \in Outcomes("glossary") :
         Step(r, "glossary", glossary_node(run[r].state, llm, o))
OrgContext(r) ==
    /\ run[r].pc = "org_context"
    /\ \E o \in Outcomes("org_context") :
         Step(r, "org_context", org_context_node(run[r].state, llm, o))
Actionable(r) ==
    /\ run[r].pc = "actionable"
    /\ \E o \in Outcomes("actionable") :
         Step(r, "actionable", actionable_node(run[r].state, llm, o))
NoActionable(r) ==
    /\ run[r].pc = "no_actionable"
    /\ \E o \in Outcomes("no_actionable") :
         Step(r, "no_actionable", no_actionable_node(run[r].state, llm, o))

\* the stream is exhausted: process_clause returns its dict
Return(r) ==
    /\ run[r].pc = "END"
    /\ run' = [run EXCEPT ![r].pc = "returned",
                          ![r].result = ResultOf(run[r].chunk_id, run[r].state)]
    /\ UNCHANGED <<llm, store, ncalls, ut, batch, api>>

\* process_single_clause turns the exception into an HTTP 500
ProcessSingleClauseFails(r) ==
    /\ run[r].pc = "raised"
    /\ run[r].caller = "api"
    /\ run' = [run EXCEPT ![r].pc = "failed"]
    /\ UNCHANGED <<llm, store, ncalls, ut, batch, api>>

\* process_all_chunks records the exception against the chunk and goes on
ProcessAllChunksRecordsError(r) ==
    /\ run[r].pc = "raised"
    /\ run[r].caller = "batch"
    /\ run' = [run EXCEPT ![r].pc = "recorded",
                          ![r].result = ErrorRecord(run[r].chunk_id)]
    /\ UNCHANGED <<llm, store, ncalls, ut, batch, api>>

\* one caller thread making up to MaxCalls calls, one after the other
Init ==
    /\ llm \in {"none", "ok"}
    /\ store = EmptyDict
    /\ run = [r \in {1} |-> IdleRun]
    /\ ncalls = 0
    /\ ut = EmptyDict
    /\ batch = IdleBatch
    /\ api = IdleApi

Next ==
    \/ \E r \in DOMAIN run, in \in CallInputs : ncalls < MaxCalls /\ Call(r, in)
    \/ \E r \in DOMAIN run : Classifier(r)
    \/ \E r \in DOMAIN run : DefinitionAnalysis(r)
    \/ \E r \in DOMAIN run : InternalReference(r)
    \/ \E r \in DOMAIN run : ExternalReference(r)
    \/ \E r \in DOMAIN run : Glossary(r)
    \/ \E r \in DOMAIN run : OrgContext(r)
    \/ \E r \in DOMAIN run : Actionable(r)
    \/ \E r \in DOMAIN run : NoActionable(r)
    \/ \E r \in DOMAIN run : Return(r)
    \/ \E r \in DOMAIN run : ProcessSingleClauseFails(r)
    \/ \E r \in DOMAIN run : ProcessAllChunksRecordsError(r)

Spec == Init /\ [][Next]_vars

(***************************************************************************)
(* The batch specification: process_all_chunks over one corpus             *)
(***************************************************************************)
MaxChunks == 3

\* chunks as chunk_document emits them
BatchChunks ==
    {[chunk_id |-> "toc", section_type |-> "toc", content |-> PlainClause],
     [chunk_id |-> "c0", section_type |-> "regulation", content |-> "Omitted."],
     [chunk_id |-> "c1", section_type |-> "regulation", content |-> PlainClause],
     [chunk_id |-> "c2", section_type |-> "definition", content |-> DefinitionClause]}

\* the corpora handed to process_all_chunks
Corpora == [1..MaxChunks -> BatchChunks]

\* the two tests at the top of the loop body that skip a chunk
SkipsChunk(chunk, skip_toc) ==
    \/ skip_toc /\ chunk.section_type \in {"toc", "preamble"}
    \/ chunk.content = ""
    \/ Len(Strip(chunk.content)) < 50

\* the state of run_batch's call of process_all_chunks(chunks, org_name)
BatchOf(chunks, org_name) ==
    [phase |-> "loop", chunks |-> chunks, org_name |-> org_name, skip_toc |-> TRUE,
     i |-> 1, results |-> <<>>, total_actionables |-> 0, applicable_chunks |-> 0,
     skipped_chunks |-> 0, summary |-> EmptyDict]

\* a skipped chunk: skipped_chunks += 1; continue
BatchSkip ==
    /\ batch.phase = "loop" /\ batch.i <= Len(batch.chunks)
    /\ SkipsChunk(batch.chunks[batch.i], batch.skip_toc)
    /\ batch' = [batch EXCEPT !.skipped_chunks = @ + 1, !.i = @ + 1]
    /\ UNCHANGED <<llm, store, run, ncalls, ut, api>>

\* the try block enters process_clause for the chunk at i
BatchProcessClause(r) ==
    /\ batch.phase = "loop" /\ batch.i <= Len(batch.chunks)
    /\ ~SkipsChunk(batch.chunks[batch.i], batch.skip_toc)
    /\ Call(r, [caller |-> "batch", clause_text |-> batch.chunks[batch.i].content,
                org_name |-> batch.org_name, chunk_id |-> batch.chunks[batch.i].chunk_id])

\* process_clause returned: the metadata is attached, the result appended
\* and the counters advanced
BatchAppendResult(r) ==
    /\ batch.phase = "loop" /\ batch.i <= Len(batch.chunks)
    /\ run[r].pc = "END"
    /\ LET result == Merge(ResultOf(run[r].chunk_id, run[r].state),
                           [chunk_metadata |->
                               [section_type |-> batch.chunks[batch.i].section_type]])
       IN  /\ run' = [run EXCEPT ![r].pc = "returned", ![r].result = result]
           /\ batch' = [batch EXCEPT
                          !.results = Append(@, result),
                          !.applicable_chunks =
                              IF result.is_applicable THEN @ + 1 ELSE @,
                          !.total_actionables =
                              IF result.is_applicable THEN @ + result.actionable_count ELSE @,
                          !.i = @ + 1]
    /\ UNCHANGED <<llm, store, ncalls, ut, api>>

\* process_clause raised: the except block appends the error record
BatchAppendError(r) ==
    /\ batch.phase = "loop" /\ batch.i <= Len(batch.chunks)
    /\ run[r].pc = "raised"
    /\ run' = [run EXCEPT ![r].pc = "recorded", ![r].result = ErrorRecord(run[r].chunk_id)]
    /\ batch' = [batch EXCEPT !.results = Append(@, ErrorRecord(run[r].chunk_id)),
                              !.i = @ + 1]
    /\ UNCHANGED <<llm, store, ncalls, ut, api>>

\* a summary that counts the skipped chunks as processed
BatchSummaryCountingSkipped ==
    /\ batch.phase = "loop"
    /\ batch.i > Len(batch.chunks)
    /\ batch' = [batch EXCEPT !.phase = "done",
                   !.summary = [org_name |-> batch.org_name,
                                total_chunks_processed |->
                                    Len(batch.results) + batch.skipped_chunks,
                                skipped_chunks |-> batch.skipped_chunks,
                                applicable_chunks |-> batch.applicable_chunks,
                                total_actionables |-> batch.total_actionables,
                                results |-> batch.results]]
    /\ UNCHANGED <<llm, store, run, ncalls, ut, api>>

\* the loop is over: the summary dict is returned
BatchSummary ==
    /\ batch.phase = "loop"
    /\ batch.i > Len(batch.chunks)
    /\ batch' = [batch EXCEPT !.phase = "done",
                   !.summary = [org_name |-> batch.org_name,
                                total_chunks_processed |-> Len(batch.results),
                                skipped_chunks |-> batch.skipped_chunks,
                                applicable_chunks |-> batch.applicable_chunks,
                                total_actionables |-> batch.total_actionables,
                                results |-> batch.results]]
    /\ UNCHANGED <<llm, store, run, ncalls, ut, api>>

InitBatch ==
    /\ llm \in {"none", "ok"}
    /\ store = EmptyDict
    /\ run = [r \in {1} |-> IdleRun]
    /\ ncalls = 0
    /\ ut = EmptyDict
    /\ batch \in {BatchOf(c, "HDFC AMC") : c \in Corpora}
    /\ api = IdleApi

NextBatch ==
    \/ BatchSkip
    \/ \E r \in DOMAIN run : BatchProcessClause(r)
    \/ \E r \in DOMAIN run : Classifier(r)
    \/ \E r \in DOMAIN run : DefinitionAnalysis(r)
    \/ \E r \in DOMAIN run : InternalReference(r)
    \/ \E r \in DOMAIN run : ExternalReference(r)
    \/ \E r \in DOMAIN run : Glossary(r)
    \/ \E r \in DOMAIN run : OrgContext(r)
    \/ \E r \in DOMAIN run : Actionable(r)
    \/ \E r \in DOMAIN run : NoActionable(r)
    \/ \E r \in DOMAIN run : BatchAppendResult(r)
    \/ \E r \in DOMAIN run : BatchAppendError(r)
    \/ BatchSummary

SpecBatch == InitBatch /\ [][NextBatch]_vars

\* the same caller making up to MaxSeqCalls calls, one after the other
NextSeq ==
    \/ \E r \in DOMAIN run, in \in CallInputs : ncalls < MaxSeqCalls /\ Call(r, in)
    \/ \E r \in DOMAIN run : Classifier(r)
    \/ \E r \in DOMAIN run : DefinitionAnalysis(r)
    \/ \E r \in DOMAIN run : InternalReference(r)
    \/ \E r \in DOMAIN run : ExternalReference(r)
    \/ \E r \in DOMAIN run : Glossary(r)
    \/ \E r \in DOMAIN run : OrgContext(r)
    \/ \E r \in DOMAIN run : Actionable(r)
    \/ \E r \in DOMAIN run : NoActionable(r)
    \/ \E r \in DOMAIN run : Return(r)
    \/ \E r \in DOMAIN run : ProcessSingleClauseFails(r)
    \/ \E r \in DOMAIN run : ProcessAllChunksRecordsError(r)

SpecSeq == Init /\ [][NextSeq]_vars

(***************************************************************************)
(* The batch endpoints: POST /batch_process schedules run_batch_processing *)
(* as a background task, which the server's thread pool runs after the     *)
(* answer has been sent; GET /batch_status reads the shared batch_status.  *)
(* The timestamps stored next to the status are left out.                  *)
(***************************************************************************)
MaxRequests == 2        \* POST /batch_process requests the server receives

\* the org_name values of the requests: the two accepted names and another
BatchOrgs == {"HDFC AMC", "Navi AMC", "Acme Trustees"}

\* the totals of the summaries process_all_chunks may return
ApiOutputs ==
    { [total_actionables |-> 0, applicable_chunks |-> 0],
      [total_actionables |-> 2, applicable_chunks |-> 1] }

\* POST /batch_process
StartBatchProcess(org_name, limit) ==
    /\ Len(api.answers) < MaxRequests
    /\ IF org_name \notin {"HDFC AMC", "Navi AMC"}
       THEN api' = [api EXCEPT !.answers = Append(@,
                        [org_name |-> org_name, status |-> "http_400"])]
       ELSE IF /\ Has(api.batch_status, org_name)
               /\ api.batch_status[org_name].status = "running"
       THEN api' = [api EXCEPT !.answers = Append(@,
                        [org_name |-> org_name, status |-> "already_running"])]
       ELSE api' = [api EXCEPT
                      !.tasks = Append(@, [org_name |-> org_name, limit |-> limit,
                                           pc |-> "scheduled", output |-> EmptyDict,
                                           error |-> ""]),
                      !.answers = Append(@,
                        [org_name |-> org_name, status |-> "started"])]
    /\ UNCHANGED <<llm, store, run, ncalls, ut, batch>>

\* GET /batch_status/{org_name}
GetBatchStatus(org_name) ==
    /\ api' = [api EXCEPT !.polled =
                 IF ~Has(api.batch_status, org_name)
                 THEN [status |-> "not_started", org_name |-> org_name]
                 ELSE api.batch_status[org_name]]
    /\ UNCHANGED <<llm, store, run, ncalls, ut, batch>>

\* run_batch_processing, its first statement: the status becomes "running"
TaskSetRunning(t) ==
    /\ api.tasks[t].pc = "scheduled"
    /\ api' = [api EXCEPT
                 !.batch_status = Merge(@, api.tasks[t].org_name :> [status |-> "running"]),
                 !.tasks[t].pc = "load_chunks"]
    /\ UNCHANGED <<llm, store, run, ncalls, ut, batch>>

\* load_chunks returns the corpus (cut to limit chunks when limit > 0) or raises
TaskLoadChunks(t) ==
    /\ api.tasks[t].pc = "load_chunks"
    /\ \E ok \in BOOLEAN :
          api' = [api EXCEPT !.tasks[t] =
                     IF ok THEN [@ EXCEPT !.pc = "process_all_chunks"]
                     ELSE [@ EXCEPT !.pc = "except", !.error = "load_chunks"]]
    /\ UNCHANGED <<llm, store, run, ncalls, ut, batch>>

\* process_all_chunks returns its summary or raises
TaskProcessAllChunks(t) ==
    /\ api.tasks[t].pc = "process_all_chunks"
    /\ \/ \E output \in ApiOutputs :
             api' = [api EXCEPT !.tasks[t] =
                        [@ EXCEPT !.pc = "save_results", !.output = output]]
       \/ api' = [api EXCEPT !.tasks[t] =
                        [@ EXCEPT !.pc = "except", !.error = "process_all_chunks"]]
    /\ UNCHANGED <<llm, store, run, ncalls, ut, batch>>

\* save_results writes the two files or raises
TaskSaveResults(t) ==
    /\ api.tasks[t].pc = "save_results"
    /\ \E ok \in BOOLEAN :
          api' = [api EXCEPT !.tasks[t] =
                     IF ok THEN [@ EXCEPT !.pc = "saved"]
                     ELSE [@ EXCEPT !.pc = "except", !.error = "save_results"]]
    /\ UNCHANGED <<llm, store, run, ncalls, ut, batch>>

\* the last statement of the try block: the status becomes "completed"
TaskCompleted(t) ==
    /\ api.tasks[t].pc = "saved"
    /\ api' = [api EXCEPT
                 !.batch_status = Merge(@, api.tasks[t].org_name :>
                     [status |-> "completed",
                      total_actionables |-> api.tasks[t].output.total_actionables,
                      applicable_chunks |-> api.tasks[t].output.applicable_chunks]),
                 !.tasks[t].pc = "done"]
    /\ UNCHANGED <<llm, store, run, ncalls, ut, batch>>

\* an except clause that leaves the status as it was
TaskErrorLeavingStatus(t) ==
    /\ api.tasks[t].pc = "except"
    /\ api' = [api EXCEPT !.tasks[t].pc = "done"]
    /\ UNCHANGED <<llm, store, run, ncalls, ut, batch>>

\* the except clause: the status becomes "error"
TaskError(t) ==
    /\ api.tasks[t].pc = "except"
    /\ api' = [api EXCEPT
                 !.batch_status = Merge(@, api.tasks[t].org_name :>
                     [status |-> "error", error |-> api.tasks[t].error]),
                 !.tasks[t].pc = "done"]
    /\ UNCHANGED <<llm, store, run, ncalls, ut, batch>>

\* one step of background task t
TaskStep(t) ==
    /\ t \in DOMAIN api.tasks
    /\ \/ TaskSetRunning(t)
       \/ TaskLoadChunks(t)
       \/ TaskProcessAllChunks(t)
       \/ TaskSaveResults(t)
       \/ TaskCompleted(t)
       \/ TaskError(t)

InitApi ==
    /\ llm = "ok"
    /\ store = EmptyDict
    /\ run = [r \in {1} |-> IdleRun]
    /\ ncalls = 0
    /\ ut = EmptyDict
    /\ batch = IdleBatch
    /\ api = IdleApi

NextApi ==
    \/ \E org_name \in BatchOrgs, limit \in {0, 1} : StartBatchProcess(org_name, limit)
    \/ \E org_name \in BatchOrgs : GetBatchStatus(org_name)
    \/ \E t \in 1..MaxRequests : TaskStep(t)

SpecApi == InitApi /\ [][NextApi]_vars

\* the thread pool runs every scheduled task to its return
SpecApiFair == SpecApi /\ \A t \in 1..MaxRequests : WF_vars(TaskStep(t))

(***************************************************************************)
(* Two requests in the server's thread pool: each thread makes one call,   *)
(* and the two calls may overlap in any way                                *)
(***************************************************************************)
ConcInputs ==
    { [caller |-> "api", clause_text |-> InternalClause, org_name |-> "HDFC AMC", chunk_id |-> ""],
      [caller |-> "api", clause_text |-> PlainClause, org_name |-> "HDFC AMC", chunk_id |-> ""],
      [caller |-> "api", clause_text |-> PlainClause, org_name |-> "HDFC AMC", chunk_id |-> "c2"] }

InitConc ==
    /\ llm = "ok"
    /\ store = EmptyDict
    /\ run = [r \in {1, 2} |-> IdleRun]
    /\ ncalls = 0
    /\ ut = EmptyDict
    /\ batch = IdleBatch
    /\ api = IdleApi

NextConc ==
    \/ \E r \in DOMAIN run, in \in ConcInputs :
          /\ run[r].pc = "idle"
          /\ \A q \in DOMAIN run : q < r => run[q].pc # "idle"
          /\ Call(r, in)
    \/ \E r \in DOMAIN run : Classifier(r)
    \/ \E r \in DOMAIN run : DefinitionAnalysis(r)
    \/ \E r \in DOMAIN run : InternalReference(r)
    \/ \E r \in DOMAIN run : ExternalReference(r)
    \/ \E r \in DOMAIN run : Glossary(r)
    \/ \E r \in DOMAIN run : OrgContext(r)
    \/ \E r \in DOMAIN run : Actionable(r)
    \/ \E r \in DOMAIN run : NoActionable(r)
    \/ \E r \in DOMAIN run : Return(r)
    \/ \E r \in DOMAIN run : ProcessSingleClauseFails(r)

SpecConc == InitConc /\ [][NextConc]_vars

(***************************************************************************)
(* Single nodes and routing functions applied to drawn inputs              *)
(***************************************************************************)
UnitClauses ==
    { DefinitionClause, InternalClause, ExternalClause, PlainClause,
      "\"Board\" SHALL MEAN the Board referred to in regulation 3.",
      "Goods shall mean goods notified under the Companies Act.",
      "Net worth shall mean the value specified in regulation 4.",
      "In clause (a) 'means' has the meaning given by RBI.",
      "Client means and includes a mutual fund.",
      "\"Custodian\" means any person who carries on custodial services.",
      "As specified in regulation 4, read with the SEBI Act.",
      "Every custodian shall meet the net worth requirement.",
      "The transfer shall comply with the companies act, 2013.",
      "The custodian shall follow regulation 9.",
      "Under regulation 4, regulation 5, regulation 6 and regulation 7 it shall report.",
      "Fees under SCHEDULE II and clause (B) of sub-regulation (2) apply.",
      "Every regulation made by the Board shall be followed." }

UnitClassifierReplies ==
    ClassifierReplies \cup
    {LlmReply("Definition"), LlmReply("this is not an internal reference"),
     LlmReply("  \"EXTERNAL_REF\"\n"), LlmReply("requirement"), LlmReply("")}

\* results of query_pinecone(term, top_k=5); the index holds a chunk under
\* its chunk_id with the chunk's content as metadata text
UnitRetrievals ==
    {PineconeRaises,
     PineconeMatches(<<>>),
     PineconeMatches(<<MatchOf("c2", DefinitionClause)>>),
     PineconeMatches(<<MatchOf("c2", DefinitionClause), MatchOf("c3", "Custodian of securities.")>>),
     PineconeMatches(<<MatchOf("c3", "The custodian SHALL inform the Board.")>>),
     PineconeMatches(<<MatchNoText("c4")>>),
     PineconeMatches(<<MatchOf("c2", DefinitionClause), MatchNoText("c4")>>),
     PineconeMatches(<<MatchOf("c3", "Custodian of securities."),
                       MatchOf("c5", "Every client must comply.")>>)}

\* replies of the oracle to actionable_node's prompt
UnitActionableReplies ==
    ActionableReplies \cup
    {LlmReply("  NOT_APPLICABLE: the organization runs no such scheme\n"),
     LlmReply("Summary of duties\n  ACTIONABLE: [MONITOR] Track custody accounts\nEnd."),
     LlmReply("ACTIONABLE:\nACTIONABLE: [VERIFY] Check the agreement"),
     LlmReply("ACTIONABLE: [DOCUMENT] Record the ACTIONABLE: tag in the register")}

BoolOrAbsent == {"absent", "true", "false"}
\* a state dict holding key k for "true"/"false" and lacking it for "absent"
BoolField(k, v) == IF v = "absent" THEN EmptyDict ELSE k :> (v = "true")

DefinitionStates ==
    { Merge(InitialState(DefinitionClause, "HDFC AMC", ""),
            Merge([clause_type |-> "definition"],
                  Merge(BoolField("is_new_definition", a),
                        Merge(BoolField("other_clauses_use_definition", b),
                              BoolField("dependent_clauses_have_actionables", c))))) :
        a \in BoolOrAbsent, b \in BoolOrAbsent, c \in BoolOrAbsent }

ClassifiedStates ==
    { InitialState(PlainClause, "HDFC AMC", "") }
    \cup { Merge(InitialState(PlainClause, "HDFC AMC", ""), [clause_type |-> t]) :
             t \in {"definition", "internal_ref", "external_ref", "direct_req", "unknown"} }

UnitCase(kind, state, o) ==
    [kind |-> kind, state |-> state, o |-> o, done |-> FALSE,
     res |-> Ok(EmptyDict, <<>>), route |-> ""]

InitNodes ==
    /\ llm \in {"none", "ok"}
    /\ store = EmptyDict
    /\ run = <<>>
    /\ ncalls = 0
    /\ batch = IdleBatch
    /\ api = IdleApi
    /\ ut \in { UnitCase("classifier", InitialState(c, "HDFC AMC", ""),
                         [reply |-> rp, q |-> NoQueries, web |-> NoWeb]) :
                  c \in UnitClauses, rp \in UnitClassifierReplies }
              \cup { UnitCase("route_after_classifier", st,
                              [reply |-> NoReply, q |-> NoQueries, web |-> NoWeb]) :
                       st \in ClassifiedStates }
              \cup { UnitCase("route_after_definition", st,
                              [reply |-> NoReply, q |-> NoQueries, web |-> NoWeb]) :
                       st \in DefinitionStates }
              \cup { UnitCase("external_reference", InitialState(c, "HDFC AMC", ""),
                              [reply |-> NoReply, q |-> NoQueries, web |-> w]) :
                       c \in UnitClauses, w \in QueryExaResults }
              \cup { UnitCase("definition_analysis",
                              InitialState(DefinitionClause, "HDFC AMC", cid),
                              [reply |-> rp, q |-> <<m>>, web |-> NoWeb]) :
                       cid \in {"", "c2"}, rp \in TermReplies, m \in UnitRetrievals }
              \cup { UnitCase("internal_reference", InitialState(c, "HDFC AMC", ""),
                              [reply |-> NoReply, q |-> <<m, m, m>>, web |-> NoWeb]) :
                       c \in UnitClauses, m \in Retrievals }
              \cup { UnitCase("actionable",
                              Merge(InitialState(PlainClause, "HDFC AMC", ""),
                                    [org_context |-> Some(HDFC_AMC_CONTEXT)]),
                              [reply |-> rp, q |-> NoQueries, web |-> NoWeb]) :
                       rp \in UnitActionableReplies }
              \cup { UnitCase("org_context", InitialState(PlainClause, org, ""),
                              [reply |-> NoReply, q |-> NoQueries, web |-> w]) :
                       org \in {"HDFC AMC", "hdfc mutual fund ltd", "Navi",
                                "NAVI AMC and HDFC", "Acme Trustees", ""},
                       w \in QueryExaResults }
              \cup { UnitCase("glossary",
                              Merge(InitialState(c, "HDFC AMC", ""),
                                    IF rt = "" THEN EmptyDict ELSE [resolved_text |-> rt]),
                              [reply |-> NoReply, q |-> NoQueries, web |-> NoWeb]) :
                       c \in {PlainClause,
                              "The AMC shall inform SEBI; the AMC and each MF comply.",
                              "The Asset Management Company (AMC) shall act for the MF.",
                              "Securities are held by the Custodian for the client.",
                              "An FPI may hold an ETForeign Portfolio Investor unit.",
                              "Nothing in this line is a term."},
                       rt \in {"", "Units of an ETF held for an FPI.\n\n[RELATED REGULATIONS]\n"} }

ApplyClassifier ==
    /\ ut.kind = "classifier" /\ ~ut.done
    /\ ut' = [ut EXCEPT !.done = TRUE, !.res = classifier_node(ut.state, llm, ut.o)]
    /\ UNCHANGED <<llm, store, run, ncalls, batch, api>>

ApplyRouteAfterClassifier ==
    /\ ut.kind = "route_after_classifier" /\ ~ut.done
    /\ ut' = [ut EXCEPT !.done = TRUE, !.route = route_after_classifier(ut.state)]
    /\ UNCHANGED <<llm, store, run, ncalls, batch, api>>

ApplyRouteAfterDefinition ==
    /\ ut.kind = "route_after_definition" /\ ~ut.done
    /\ ut' = [ut EXCEPT !.done = TRUE, !.route = route_after_definition(ut.state)]
    /\ UNCHANGED <<llm, store, run, ncalls, batch, api>>

ApplyExternalReference ==
    /\ ut.kind = "external_reference" /\ ~ut.done
    /\ ut' = [ut EXCEPT !.done = TRUE, !.res = external_reference_node(ut.state, llm, ut.o)]
    /\ UNCHANGED <<llm, store, run, ncalls, batch, api>>

ApplyDefinitionAnalysis ==
    /\ ut.kind = "definition_analysis" /\ ~ut.done
    /\ ut' = [ut EXCEPT !.done = TRUE, !.res = definition_analysis_node(ut.state, llm, ut.o)]
    /\ UNCHANGED <<llm, store, run, ncalls, batch, api>>

ApplyInternalReference ==
    /\ ut.kind = "internal_reference" /\ ~ut.done
    /\ ut' = [ut EXCEPT !.done = TRUE, !.res = internal_reference_node(ut.state, llm, ut.o)]
    /\ UNCHANGED <<llm, store, run, ncalls, batch, api>>

ApplyActionable ==
    /\ ut.kind = "actionable" /\ ~ut.done
    /\ ut' = [ut EXCEPT !.done = TRUE, !.res = actionable_node(ut.state, llm, ut.o)]
    /\ UNCHANGED <<llm, store, run, ncalls, batch, api>>

ApplyOrgContext ==
    /\ ut.kind = "org_context" /\ ~ut.done
    /\ ut' = [ut EXCEPT !.done = TRUE, !.res = org_context_node(ut.state, llm, ut.o)]
    /\ UNCHANGED <<llm, store, run, ncalls, batch, api>>

ApplyGlossary ==
    /\ ut.kind = "glossary" /\ ~ut.done
    /\ ut' = [ut EXCEPT !.done = TRUE, !.res = glossary_node(ut.state, llm, ut.o)]
    /\ UNCHANGED <<llm, store, run, ncalls, batch, api>>

NextNodes ==
    \/ ApplyClassifier
    \/ ApplyRouteAfterClassifier
    \/ ApplyRouteAfterDefinition
    \/ ApplyExternalReference
    \/ ApplyDefinitionAnalysis
    \/ ApplyInternalReference
    \/ ApplyActionable
    \/ ApplyOrgContext
    \/ ApplyGlossary

SpecNodes == InitNodes /\ [][NextNodes]_vars

(***************************************************************************)
(* Properties of the pipeline: routing                                     *)
(***************************************************************************)
\* the nodes with an edge to END; the two conditional nodes have none
TerminalNodes ==
    {n \in NodeNames : n \notin {"classifier", "definition_analysis"} /\ StaticEdge(n) = "END"}

\* a run has left the graph through END
Ended(r) == run[r].pc \in {"END", "returned"}

\* C1: routing completeness.  A run starts at the classifier; the node after
\* the classifier is the one the transition table gives for the clause_type
\* the classifier wrote (definition -> definition_analysis, internal_ref ->
\* internal_reference, external_ref -> external_reference, direct_req and
\* anything else -> glossary); a run that has left the graph ran exactly one
\* of the two terminal nodes, as its last node; and no_actionable runs only
\* right after definition_analysis.
RoutingCompleteness ==
    \A r \in DOMAIN run :
        LET p == run[r].path
            seen == p \o (IF Running(r) THEN <<run[r].pc>> ELSE <<>>)
        IN  /\ Len(seen) >= 1 => seen[1] = "classifier"
            /\ Len(seen) >= 2 =>
                 /\ Has(run[r].state, "clause_type")
                 /\ seen[2] = (CASE run[r].state["clause_type"] = "definition"
                                      -> "definition_analysis"
                                 [] run[r].state["clause_type"] = "internal_ref"
                                      -> "internal_reference"
                                 [] run[r].state["clause_type"] = "external_ref"
                                      -> "external_reference"
                                 [] OTHER -> "glossary")
            /\ Ended(r) =>
                 /\ p[Len(p)] \in {"actionable", "no_actionable"}
                 /\ Cardinality({i \in 1..Len(p) : p[i] \in {"actionable", "no_actionable"}}) = 1
            /\ \A i \in 1..Len(seen) :
                 seen[i] = "no_actionable" => i > 1 /\ seen[i - 1] = "definition_analysis"

\* C1 witness: an internal reference went through its resolver to the
\* actionable node and the call returned
RoutedInternalReference ==
    \E r \in DOMAIN run :
        /\ run[r].pc = "returned"
        /\ run[r].state["clause_type"] = "internal_ref"
        /\ run[r].path = <<"classifier", "internal_reference", "glossary",
                           "org_context", "actionable">>

\* C8: no cycle.  Within one execution no node runs twice, a terminal node
\* is the last node of its run, and both terminal nodes lead to END only.
NoCycle ==
    /\ \A r \in DOMAIN run :
         LET p == run[r].path
         IN  /\ \A i, j \in 1..Len(p) : i # j => p[i] # p[j]
             /\ \A i \in 1..Len(p) : p[i] \in {"actionable", "no_actionable"} => i = Len(p)
             /\ (Len(p) > 0 /\ p[Len(p)] \in {"actionable", "no_actionable"}) => ~Running(r)
    /\ TerminalNodes = {"actionable", "no_actionable"}

\* C8 witness: a run that took the longest path of the graph and left it
LongestPathEnded ==
    \E r \in DOMAIN run :
        /\ run[r].pc = "END"
        /\ Len(run[r].path) = 5
        /\ run[r].path[2] = "external_reference"

\* C9: convergence ordering.  Wherever actionable stands in a run's path,
\* org_context stands right before it and glossary right before that, each
\* of the two ran once, and glossary was entered from the classifier, a
\* reference resolver or definition_analysis.
ConvergenceOrdering ==
    \A r \in DOMAIN run :
        LET p == run[r].path
        IN  \A i \in 1..Len(p) :
              p[i] = "actionable" =>
                /\ i >= 4
                /\ p[i - 1] = "org_context"
                /\ p[i - 2] = "glossary"
                /\ p[i - 3] \in {"classifier", "internal_reference", "external_reference",
                                 "definition_analysis"}
                /\ Cardinality({j \in 1..Len(p) : p[j] = "glossary"}) = 1
                /\ Cardinality({j \in 1..Len(p) : p[j] = "org_context"}) = 1

\* C9 witness: a definition with dependent actionables reached the
\* actionable node through glossary and org_context
DefinitionReachedActionable ==
    \E r \in DOMAIN run :
        run[r].path = <<"classifier", "definition_analysis", "glossary", "org_context",
                        "actionable">>

(***************************************************************************)
(* Properties of the pipeline: terminal states and results                 *)
(***************************************************************************)
\* C5: in every terminal state the actionables list is empty exactly when
\* is_applicable is false.
EmptyIffNotApplicable ==
    \A r \in DOMAIN run :
        Ended(r) => ((run[r].state["actionables"] = <<>>) <=> ~run[r].state["is_applicable"])

\* C6: actionable_count is a non-negative integer equal to the length of
\* actionables in the state a terminal node leaves, in the dict
\* process_clause returns, and in the error record process_all_chunks
\* builds.
CountIsLength ==
    \A r \in DOMAIN run :
        /\ Ended(r) =>
             /\ run[r].state["actionable_count"] \in Nat
             /\ run[r].state["actionable_count"] = Len(run[r].state["actionables"])
        /\ run[r].pc \in {"returned", "recorded"} =>
             /\ run[r].result.actionable_count \in Nat
             /\ run[r].result.actionable_count = Len(run[r].result.actionables)

\* C6 witness: a call returned two actionables
ReturnedTwoActionables ==
    \E r \in DOMAIN run :
        /\ run[r].pc = "returned"
        /\ Len(run[r].result.actionables) = 2

\* C7: whatever org_context_node wrote is a mapping that holds entity_name
\* and role_in_custodian_regulations, and actionable_node never fails for
\* want of one.
OrgContextAlwaysMapping ==
    \A r \in DOMAIN run :
        "org_context" \in run[r].written =>
            /\ run[r].state["org_context"] # None
            /\ {"entity_name", "role_in_custodian_regulations"}
                   \subseteq DOMAIN run[r].state["org_context"][1]

(***************************************************************************)
(* Properties of single nodes and routing functions                        *)
(***************************************************************************)
\* C2: definition branch exhaustiveness.  On each of the 8 combinations of
\* the three booleans, route_after_definition returns no_actionable when
\* is_new_definition is true or other_clauses_use_definition is false or
\* dependent_clauses_have_actionables is false, and glossary otherwise.
DefinitionBranchExhaustive ==
    (/\ ut.kind = "route_after_definition"
     /\ ut.done
     /\ {"is_new_definition", "other_clauses_use_definition",
         "dependent_clauses_have_actionables"} \subseteq DOMAIN ut.state)
    => ut.route = (IF \/ ut.state["is_new_definition"]
                      \/ ~ut.state["other_clauses_use_definition"]
                      \/ ~ut.state["dependent_clauses_have_actionables"]
                   THEN "no_actionable" ELSE "glossary")

\* C2 witness: the one combination that goes on to the glossary was routed
RoutedKnownDefinitionWithDependents ==
    /\ ut.kind = "route_after_definition"
    /\ ut.done
    /\ Get(ut.state, "is_new_definition", TRUE) = FALSE
    /\ Get(ut.state, "other_clauses_use_definition", FALSE) = TRUE
    /\ Get(ut.state, "dependent_clauses_have_actionables", FALSE) = TRUE
    /\ ut.route = "glossary"

\* C10: fast-path precedence.  On a clause whose text contains "shall mean",
\* classifier_node returns clause_type = definition and calls no
\* collaborator, whether the oracle handle is None, or the oracle would
\* raise, or would give any reply.
ShallMeanFastPath ==
    (/\ ut.kind = "classifier"
     /\ ut.done
     /\ Contains(ut.state["clause_text"], "shall mean"))
    => /\ ~ut.res.raised
       /\ ut.res.upd = [clause_type |-> "definition"]
       /\ ut.res.log = <<>>

\* C10 witness: a "shall mean" clause that also names an external act was
\* classified with no oracle handle
ShallMeanClassifiedWithoutOracle ==
    /\ ut.kind = "classifier"
    /\ ut.done
    /\ llm = "none"
    /\ Contains(ut.state["clause_text"], "shall mean")
    /\ Contains(ut.state["clause_text"], "Companies Act")
    /\ Get(ut.res.upd, "clause_type", "") = "definition"

\* C20: a routing function applied to a state that lacks a field it reads
\* fails instead of routing.  route_after_classifier on a state without
\* clause_type, and route_after_definition on a state without one of its
\* three booleans, return no node name.
AbsentRoutingFieldFails ==
    /\ (/\ ut.kind = "route_after_classifier"
        /\ ut.done
        /\ "clause_type" \notin DOMAIN ut.state) => ut.route \notin NodeNames
    /\ (/\ ut.kind = "route_after_definition"
        /\ ut.done
        /\ ~({"is_new_definition", "other_clauses_use_definition",
              "dependent_clauses_have_actionables"} \subseteq DOMAIN ut.state))
       => ut.route \notin NodeNames

\* C21: when the web search raises or replies without choices,
\* external_reference_node raises nothing and returns referenced_regulations
\* and a resolved_text made of the clause, the library header and the fixed
\* snippets, with no web paragraph; the node after it is glossary.
WebSearchDegradesGracefully ==
    (/\ ut.kind = "external_reference"
     /\ ut.done
     /\ ut.o.web.kind \in {"raise", "nochoices"}) =>
        LET clause == ut.state["clause_text"]
        IN  /\ ~ut.res.raised
            /\ DOMAIN ut.res.upd = {"resolved_text", "referenced_regulations"}
            /\ ut.res.upd["resolved_text"] =
                   clause \o "\n\n[EXTERNAL REGULATION LIBRARY]\n" \o LibrarySnippets(clause)
            /\ ~Contains(ut.res.upd["resolved_text"], "[Additional Context from Web]")
            /\ NextNode("external_reference", Merge(ut.state, ut.res.upd)) = "glossary"

\* the search for the Companies Act clause raised after it was issued
ExternalResolvedAfterSearchRaised ==
    /\ ut.kind = "external_reference"
    /\ ut.done
    /\ ut.o.web.kind = "raise"
    /\ ut.res.log = <<ExaCall("Companies Act SEBI compliance requirements")>>
    /\ Contains(ut.res.upd["resolved_text"], "- Companies Act, 2013")
    /\ ut.res.upd["referenced_regulations"] = <<"Companies Act">>

\* C27: on every clause that classifier_node classifies external_ref by the
\* Companies Act pattern, which matches in any letter case,
\* external_reference_node lists the pattern in referenced_regulations and
\* puts the Companies Act snippet into resolved_text.
CompaniesActSnippetAdded ==
    (/\ ut.kind = "external_reference"
     /\ ut.done
     /\ Search(EXTERNAL_REF_PATTERNS[3].items, Lower(ut.state["clause_text"]))
     /\ classifier_node(ut.state, "none", ut.o).upd = [clause_type |-> "external_ref"]) =>
        /\ \E i \in 1..Len(ut.res.upd["referenced_regulations"]) :
               ut.res.upd["referenced_regulations"][i] = "Companies Act"
        /\ Contains(ut.res.upd["resolved_text"],
                    "Companies Act, 2013: Defines corporate governance, change in control")

\* C22: definition decision 1.  When definition_analysis_node returns,
\* is_new_definition is true exactly when no retrieval result has an id
\* other than the clause's chunk_id, and then other_clauses_use_definition
\* and dependent_clauses_have_actionables are both false.
NewDefinitionIffNoOtherClause ==
    (ut.kind = "definition_analysis" /\ ut.done /\ ~ut.res.raised) =>
        LET matches == ut.o.q[1].matches
            surviving == {i \in 1..Len(matches) : matches[i].id # ut.state["chunk_id"]}
        IN  /\ ut.res.upd["is_new_definition"] = (surviving = {})
            /\ ut.res.upd["is_new_definition"] =>
                  /\ ut.res.upd["other_clauses_use_definition"] = FALSE
                  /\ ut.res.upd["dependent_clauses_have_actionables"] = FALSE

\* the only hit was the clause's own chunk, and it was filtered out
OwnChunkFilteredOut ==
    /\ ut.kind = "definition_analysis" /\ ut.done /\ ~ut.res.raised
    /\ ut.state["chunk_id"] = "c2"
    /\ ut.o.q[1].matches = <<MatchOf("c2", DefinitionClause)>>
    /\ ut.res.upd["is_new_definition"]
    /\ ut.res.upd["term_defined"] = "custodian"

\* C23: definition decision 3.  When some retrieval result survives the
\* filter, dependent_clauses_have_actionables is true exactly when a
\* surviving result has a text that contains, in any letter case, one of
\* shall, must, required, obligat, comply, ensure; a result without text
\* contains none.
DependentActionablesIffIndicator ==
    (ut.kind = "definition_analysis" /\ ut.done /\ ~ut.res.raised) =>
        LET matches == ut.o.q[1].matches
            surviving == {i \in 1..Len(matches) : matches[i].id # ut.state["chunk_id"]}
            indicators == {"shall", "must", "required", "obligat", "comply", "ensure"}
            indicated == {i \in surviving :
                            /\ "text" \in DOMAIN matches[i].metadata
                            /\ \E w \in indicators :
                                   Contains(Lower(matches[i].metadata["text"]), w)}
        IN  surviving # {} =>
                /\ ut.res.upd["other_clauses_use_definition"]
                /\ ut.res.upd["dependent_clauses_have_actionables"] = (indicated # {})

\* an upper-case SHALL in another clause made the definition actionable
UpperCaseIndicatorFound ==
    /\ ut.kind = "definition_analysis" /\ ut.done /\ ~ut.res.raised
    /\ ut.o.q[1].matches = <<MatchOf("c3", "The custodian SHALL inform the Board.")>>
    /\ ut.res.upd["dependent_clauses_have_actionables"]
    /\ ~ut.res.upd["is_new_definition"]

\* C24: self-match exclusion.  When every retrieval result is the clause
\* being processed (its chunk_id, or the chunk holding its text), with or
\* without a chunk_id in the call, is_new_definition is true and the
\* definition is routed to no_actionable.
SelfMatchNeverCounts ==
    (ut.kind = "definition_analysis" /\ ut.done /\ ~ut.res.raised) =>
        LET matches == ut.o.q[1].matches
            self(m) == \/ m.id = ut.state["chunk_id"]
                       \/ Get(m.metadata, "text", "") = ut.state["clause_text"]
        IN  (\A i \in 1..Len(matches) : self(matches[i])) =>
                /\ ut.res.upd["is_new_definition"]
                /\ route_after_definition(Merge(ut.state, ut.res.upd)) = "no_actionable"

\* C25: query discipline of internal_reference_node.  Without an extracted
\* citation it issues one query, the clause text with top_k = 2.  With
\* citations it issues only queries "regulation {id}" with top_k = 1, for
\* the citations in order, three at most (all of the first three unless a
\* query raises), and referenced_regulations lists every citation.
InternalQueryDiscipline ==
    (ut.kind = "internal_reference" /\ ut.done) =>
        LET clause == ut.state["clause_text"]
            refs == ExtractRefs(clause, Lower(clause), 1)
            log == ut.res.log
        IN  /\ refs = <<>> => log = <<[svc |-> "pinecone", arg |-> clause, top_k |-> 2]>>
            /\ refs # <<>> =>
                  /\ Len(log) <= 3 /\ Len(log) <= Len(refs)
                  /\ \A i \in 1..Len(log) :
                        log[i] = [svc |-> "pinecone", arg |-> "regulation " \o refs[i], top_k |-> 1]
                  /\ ~ut.res.raised => Len(log) = (IF Len(refs) < 3 THEN Len(refs) ELSE 3)
            /\ ~ut.res.raised => ut.res.upd["referenced_regulations"] = refs

\* five citations were extracted and three of them fetched
FetchedThreeOfFive ==
    /\ ut.kind = "internal_reference" /\ ut.done /\ ~ut.res.raised
    /\ ut.res.upd["referenced_regulations"] = <<"4", "5", "6", "7", "4">>
    /\ Len(ut.res.log) = 3
    /\ ut.res.log[3].arg = "regulation 6"

\* C26: each cited regulation is fetched and appended once.  No identifier
\* occurs twice in referenced_regulations and no query is issued twice; for
\* "As per regulation 17, ..." the list is ["17"] and the one query is
\* "regulation 17".
EachCitationFetchedOnce ==
    (ut.kind = "internal_reference" /\ ut.done /\ ~ut.res.raised) =>
        LET refs == ut.res.upd["referenced_regulations"]
            log == ut.res.log
        IN  /\ \A i, j \in 1..Len(refs) : i # j => refs[i] # refs[j]
            /\ \A i, j \in 1..Len(log) : i # j => log[i] # log[j]
            /\ ut.state["clause_text"] = InternalClause =>
                  /\ refs = <<"17">>
                  /\ log = <<PineconeCall("regulation 17", 1)>>

\* C28: parsing of the oracle's reply by actionable_node.  A trimmed reply
\* that starts with NOT_APPLICABLE gives is_applicable false and no
\* actionables.  Any other reply gives is_applicable true and one actionable
\* per line that begins with "ACTIONABLE:", in reply order, each the line
\* with its leading marker removed and trimmed; a reply without such a line
\* gives none, and nothing is raised.
ActionablesAreMarkedLines ==
    (ut.kind = "actionable" /\ ut.done /\ ~ut.o.reply.raised /\ llm = "ok") =>
        LET result == Strip(ut.o.reply.content)
            marked == SelectSeq(SplitLines(result),
                                LAMBDA l : StartsWith(Strip(l), "ACTIONABLE:"))
            expected == [i \in 1..Len(marked) |->
                            Strip(SubSeq(Strip(marked[i]), Len("ACTIONABLE:") + 1,
                                         Len(Strip(marked[i]))))]
        IN  /\ ~ut.res.raised
            /\ IF StartsWith(result, "NOT_APPLICABLE")
               THEN /\ ut.res.upd["is_applicable"] = FALSE
                    /\ ut.res.upd["actionables"] = <<>>
               ELSE /\ ut.res.upd["is_applicable"] = TRUE
                    /\ ut.res.upd["actionables"] = expected
            /\ ut.res.upd["actionable_count"] = Len(ut.res.upd["actionables"])

\* C29: organization lookup.  When org_name contains a registry key, in any
\* letter case, org_context_node returns the profile of the first such key
\* in registry order and calls no web search.  When no key matches it calls
\* the web search once, and if the search raises it returns the default
\* profile: entity_name = org_name, role "Client", no compliance factors.
OrgLookupRegistryFirst ==
    (ut.kind = "org_context" /\ ut.done) =>
        LET org_name == ut.state["org_name"]
            keys == <<"hdfc amc", "hdfc", "hdfc mutual fund", "navi amc", "navi",
                      "navi mutual fund">>
            hits == {i \in 1..Len(keys) : Contains(Lower(org_name), keys[i])}
        IN  /\ ~ut.res.raised
            /\ hits # {} =>
                  /\ ut.res.log = <<>>
                  /\ ut.res.upd["org_context"] =
                        Some(ORG_CONTEXTS[CHOOSE i \in hits : \A j \in hits : i <= j][2])
            /\ hits = {} =>
                  /\ Len(ut.res.log) = 1
                  /\ ut.res.log[1].svc = "exa"
                  /\ ut.o.web.kind = "raise" =>
                        ut.res.upd["org_context"] =
                            Some([entity_name |-> org_name,
                                  role_in_custodian_regulations |-> "Client",
                                  compliance_factors |-> EmptyDict])

\* an unknown organization whose web search raised got the default profile
UnknownOrgSearchRaised ==
    /\ ut.kind = "org_context" /\ ut.done
    /\ ut.state["org_name"] = "Acme Trustees"
    /\ ut.o.web.kind = "raise"
    /\ ut.res.log = <<ExaCall("Acme Trustees mutual fund AMC SEBI registration schemes")>>
    /\ ut.res.upd["org_context"][1].entity_name = "Acme Trustees"
    /\ ut.res.upd["org_context"][1].compliance_factors = EmptyDict

\* C30: the abbreviation rewrite rule of glossary_node.  Taking the table
\* entries in order, the text is rewritten at an entry exactly when the
\* abbreviation occurs in the text as it then stands and the expansion does
\* not; every occurrence becomes "ABBR (Expansion)" and ABBR -> Expansion is
\* recorded.  The key terms found only add their glossary entries to
\* glossary_terms_used: normalized_text is the text after the last entry.
AbbreviationRewriteRule ==
    (ut.kind = "glossary" /\ ut.done) =>
        LET text == IF "resolved_text" \in DOMAIN ut.state
                    THEN ut.state["resolved_text"] ELSE ut.state["clause_text"]
            table == <<<<"AMC", "Asset Management Company">>,
                       <<"MF", "Mutual Fund">>,
                       <<"FPI", "Foreign Portfolio Investor">>,
                       <<"FII", "Foreign Institutional Investor">>,
                       <<"ETF", "Exchange Traded Fund">>,
                       <<"SEBI", "Securities and Exchange Board of India">> >>
            applies(t, i) == Contains(t, table[i][1]) /\ ~Contains(t, table[i][2])
            rewritten(i) == table[i][1] \o " (" \o table[i][2] \o ")"
            T[i \in 0..Len(table)] ==
                IF i = 0 THEN text
                ELSE IF applies(T[i - 1], i)
                     THEN Replace(T[i - 1], table[i][1], rewritten(i))
                     ELSE T[i - 1]
            out == ut.res.upd["normalized_text"]
            terms == ut.res.upd["glossary_terms_used"]
            abbreviations == {table[i][1] : i \in 1..Len(table)}
        IN  /\ ~ut.res.raised
            /\ out = T[Len(table)]
            /\ \A i \in 1..Len(table) :
                  /\ applies(T[i - 1], i) <=>
                        (table[i][1] \in DOMAIN terms /\ terms[table[i][1]] = table[i][2])
                  /\ applies(T[i - 1], i) =>
                        \A p \in 1..(Len(out) - Len(table[i][1]) + 1) :
                            SubSeq(out, p, p + Len(table[i][1]) - 1) = table[i][1] =>
                                /\ p + Len(rewritten(i)) - 1 <= Len(out)
                                /\ SubSeq(out, p, p + Len(rewritten(i)) - 1) = rewritten(i)
                  /\ ~applies(T[i - 1], i) => T[i] = T[i - 1]
            /\ \A k \in DOMAIN terms \ abbreviations :
                  /\ Contains(Lower(out), k)
                  /\ terms[k] = SEBI_GLOSSARY[k]

\* both occurrences of AMC were rewritten, and the key term "securities",
\* found in the expansion of SEBI, was recorded without touching the text
RewroteEveryOccurrence ==
    /\ ut.kind = "glossary" /\ ut.done
    /\ ut.state["clause_text"] = "The AMC shall inform SEBI; the AMC and each MF comply."
    /\ "resolved_text" \notin DOMAIN ut.state
    /\ ut.res.upd["normalized_text"] =
          "The AMC (Asset Management Company) shall inform SEBI (Securities and Exchange Board of India); the AMC (Asset Management Company) and each MF (Mutual Fund) comply."
    /\ DOMAIN ut.res.upd["glossary_terms_used"] = {"AMC", "MF", "SEBI", "securities"}

\* C32: the three booleans definition_analysis_node returns are tied:
\* other_clauses_use_definition is the negation of is_new_definition, and
\* dependent_clauses_have_actionables implies other_clauses_use_definition.
\* So the node returns one of three combinations, and route_after_definition
\* never sees "not new and not used by other clauses" from it.
DefinitionFlagsTied ==
    (ut.kind = "definition_analysis" /\ ut.done /\ ~ut.res.raised) =>
        LET is_new == ut.res.upd["is_new_definition"]
            other_use == ut.res.upd["other_clauses_use_definition"]
            deps == ut.res.upd["dependent_clauses_have_actionables"]
        IN  /\ other_use = ~is_new
            /\ deps => other_use
            /\ <<is_new, other_use, deps>> \in
                   {<<TRUE, FALSE, FALSE>>, <<FALSE, TRUE, FALSE>>, <<FALSE, TRUE, TRUE>>}
            /\ ~(~is_new /\ ~other_use)
            /\ route_after_definition(Merge(ut.state, ut.res.upd)) =
                   (IF deps THEN "glossary" ELSE "no_actionable")

\* a definition that other clauses use, none of them with an obligation
UsedWithoutDependentActionables ==
    /\ ut.kind = "definition_analysis" /\ ut.done /\ ~ut.res.raised
    /\ ~ut.res.upd["is_new_definition"]
    /\ ut.res.upd["other_clauses_use_definition"]
    /\ ~ut.res.upd["dependent_clauses_have_actionables"]
    /\ route_after_definition(Merge(ut.state, ut.res.upd)) = "no_actionable"

\* C33: on a clause that classifier_node classifies internal_ref by a
\* pattern, without the oracle, internal_reference_node extracts at least
\* one citation and makes no semantic lookup (top_k = 2): the lookup is made
\* only on clauses that no internal pattern matches.
PatternRoutedClauseHasCitation ==
    (/\ ut.kind = "internal_reference"
     /\ ut.done
     /\ classifier_node(ut.state, "none", ut.o).upd = [clause_type |-> "internal_ref"]) =>
        /\ \A i \in 1..Len(ut.res.log) : ut.res.log[i].top_k = 1
        /\ Len(ut.res.log) >= 1
        /\ ~ut.res.raised => ut.res.upd["referenced_regulations"] # <<>>

\* a clause routed by the Schedule pattern, in upper case, with its citations
ScheduleClauseResolved ==
    /\ ut.kind = "internal_reference" /\ ut.done /\ ~ut.res.raised
    /\ ut.state["clause_text"] = "Fees under SCHEDULE II and clause (B) of sub-regulation (2) apply."
    /\ classifier_node(ut.state, "none", ut.o).upd = [clause_type |-> "internal_ref"]
    /\ ut.res.upd["referenced_regulations"] = <<"2", "B", "I">>
    /\ Len(ut.res.log) = 3

(***************************************************************************)
(* Properties of the checkpointed state across and between calls           *)
(***************************************************************************)
\* the fields process_clause puts into initial_state
InputFields == DOMAIN InitialState("", "", "")

\* C3: a ClauseState is fresh per process_clause call.  The state the nodes
\* after the classifier see, and the state a call ends with, hold only the
\* call's inputs and the fields written by nodes of that call, and the dict
\* a call returns carries a term_defined or referenced_regulations only if
\* a node of that call wrote it.
FreshStatePerCall ==
    \A r \in DOMAIN run :
        /\ (Len(run[r].path) >= 1 /\ (Running(r) \/ Ended(r))) =>
               DOMAIN run[r].state \subseteq InputFields \cup run[r].written
        /\ run[r].pc = "returned" =>
             /\ run[r].result.term_defined # None => "term_defined" \in run[r].written
             /\ run[r].result.referenced_regulations # <<>> =>
                    "referenced_regulations" \in run[r].written

\* C4: concurrent executions share no ClauseState.  In a call that started
\* while another call on the same checkpointer thread was running, the
\* nodes after the classifier see only the call's own inputs and the fields
\* its own nodes wrote.
ConcurrentCallsShareNothing ==
    \A r \in DOMAIN run :
        (run[r].overlapped /\ Len(run[r].path) >= 1 /\ (Running(r) \/ Ended(r))) =>
            DOMAIN run[r].state \subseteq InputFields \cup run[r].written

\* C19: in every call classified direct_req or definition, first or later,
\* resolved_text is absent from the state once the classifier has run, the
\* normalized_text that glossary writes is the expansion of that call's
\* clause_text, and the text actionable_node sends to the oracle is the head
\* of that normalized_text.
DirectReqReadsOwnClause ==
    \A r \in DOMAIN run :
        (/\ Running(r) \/ Ended(r)
         /\ "clause_type" \in run[r].written
         /\ run[r].state["clause_type"] \in {"direct_req", "definition"}) =>
            LET own == ExpandAbbreviations(run[r].clause_text, EmptyDict, 1)[1]
            IN  /\ "resolved_text" \notin DOMAIN run[r].state
                /\ "normalized_text" \in run[r].written =>
                       run[r].state["normalized_text"] = own
                /\ \A i \in 1..Len(run[r].log) :
                       run[r].log[i].svc = "llm" =>
                           run[r].log[i].arg \in {Prefix(own, 1500),
                                                  Prefix(run[r].clause_text, 500)}

(***************************************************************************)
(* Properties of the classifier                                            *)
(***************************************************************************)
\* C11: the definition fast path covers the unquoted word.  Every clause
\* that contains "means", quoted or not, is classified definition with no
\* oracle call, whatever the oracle would reply.
UnquotedMeansIsDefinition ==
    (/\ ut.kind = "classifier"
     /\ ut.done
     /\ Contains(Lower(ut.state["clause_text"]), "means"))
    => /\ ~ut.res.raised
       /\ ut.res.upd = [clause_type |-> "definition"]
       /\ ut.res.log = <<>>

\* C12: classifier priority order.  The definition phrases are tried first,
\* then the internal patterns, then the external patterns, then the oracle,
\* and the first match decides: a fast path that matches returns its type
\* with no oracle call, and the oracle is invoked exactly when none of the
\* three matches.
ClassifierPriorityOrder ==
    (ut.kind = "classifier" /\ ut.done) =>
        LET clause_lower == Lower(ut.state["clause_text"])
            def == MatchesDefinitionPhrase(clause_lower)
            int == MatchesInternalPattern(clause_lower)
            ext == MatchesExternalPattern(clause_lower)
        IN  /\ def => ut.res = Ok([clause_type |-> "definition"], <<>>)
            /\ (~def /\ int) => ut.res = Ok([clause_type |-> "internal_ref"], <<>>)
            /\ (~def /\ ~int /\ ext) => ut.res = Ok([clause_type |-> "external_ref"], <<>>)
            /\ (ut.res.log # <<>>) <=> (~def /\ ~int /\ ~ext)
            /\ ut.res.log # <<>> =>
                 ut.res.log = <<LlmCall(Prefix(ut.state["clause_text"], 500))>>

\* C12 witness: a clause matching an internal and an external pattern, and
\* no definition phrase, was classified internal_ref
InternalBeatsExternal ==
    /\ ut.kind = "classifier"
    /\ ut.done
    /\ ~MatchesDefinitionPhrase(Lower(ut.state["clause_text"]))
    /\ MatchesInternalPattern(Lower(ut.state["clause_text"]))
    /\ MatchesExternalPattern(Lower(ut.state["clause_text"]))
    /\ Get(ut.res.upd, "clause_type", "") = "internal_ref"

\* C13: the classifier's output is closed.  Whenever classifier_node
\* returns, what it writes is clause_type alone, with one of the four
\* values; it raises only when the oracle call it needed raised; and a reply
\* in which, case and quote characters aside, none of "definition",
\* "internal", "external" occurs gives direct_req.
ClassifierOutputClosed ==
    (ut.kind = "classifier" /\ ut.done) =>
        LET said == Replace(Replace(Lower(ut.o.reply.content), "'", ""), "\"", "")
        IN  /\ ~ut.res.raised =>
                 /\ DOMAIN ut.res.upd = {"clause_type"}
                 /\ ut.res.upd["clause_type"] \in
                        {"definition", "internal_ref", "external_ref", "direct_req"}
            /\ ut.res.raised => (ut.res.log # <<>> /\ (llm = "none" \/ ut.o.reply.raised))
            /\ (/\ ut.res.log # <<>>
                /\ llm = "ok"
                /\ ~ut.o.reply.raised
                /\ ~Contains(said, "definition")
                /\ ~Contains(said, "internal")
                /\ ~Contains(said, "external"))
               => ut.res = Ok([clause_type |-> "direct_req"],
                              <<LlmCall(Prefix(ut.state["clause_text"], 500))>>)

\* C13 witness: the oracle was asked and replied with a word that names no
\* category
UnrecognizedReplyDefaulted ==
    /\ ut.kind = "classifier"
    /\ ut.done
    /\ ut.res.log # <<>>
    /\ llm = "ok"
    /\ ut.o.reply = LlmReply("requirement")
    /\ Get(ut.res.upd, "clause_type", "") = "direct_req"

(***************************************************************************)
(* Properties of the pipeline: the no_actionable end, failures, fields     *)
(***************************************************************************)
\* C14: an execution that runs no_actionable runs neither glossary nor
\* org_context nor actionable, makes no collaborator call other than those
\* of the classifier and of definition_analysis, ends with actionables = [],
\* actionable_count = 0 and is_applicable = false, and returns the same.
NoActionableEndsEmpty ==
    \A r \in DOMAIN run :
        (\E i \in 1..Len(run[r].path) : run[r].path[i] = "no_actionable") =>
            /\ \A i \in 1..Len(run[r].path) :
                   run[r].path[i] \notin {"glossary", "org_context", "actionable"}
            /\ \A i \in 1..Len(run[r].log) :
                   \/ run[r].log[i] = LlmCall(Prefix(run[r].clause_text, 500))
                   \/ run[r].log[i].svc = "pinecone" /\ run[r].log[i].top_k = 5
            /\ ~Running(r)
            /\ run[r].state["actionables"] = <<>>
            /\ run[r].state["actionable_count"] = 0
            /\ run[r].state["is_applicable"] = FALSE
            /\ run[r].pc = "returned" =>
                   /\ run[r].result.actionables = <<>>
                   /\ run[r].result.actionable_count = 0
                   /\ run[r].result.is_applicable = FALSE

\* C14 witness: a call for a definition returned from no_actionable
ReturnedFromNoActionable ==
    \E r \in DOMAIN run :
        /\ run[r].pc = "returned"
        /\ run[r].path = <<"classifier", "definition_analysis", "no_actionable">>
        /\ run[r].result.clause_type = "definition"

OracleFailurePropagates ==
    [][\A r \in DOMAIN run :
          LET before == run[r]
              after == run'[r]
              fallsBack == classifier_node(before.state, "none",
                               CHOOSE o \in Outcomes("classifier") : TRUE).raised
          IN  after # before =>
                /\ (llm = "none" /\ before.pc = "classifier" /\ fallsBack) => after.pc = "raised"
                /\ (llm = "none" /\ before.pc = "actionable") => after.pc = "raised"
                /\ (before.pc \in {"classifier", "actionable"} /\ after.pc = "raised") =>
                      /\ after.path = Append(before.path, before.pc)
                      /\ \A i \in 1..Len(before.path) : before.path[i] # before.pc
                      /\ after.log \in {before.log, Append(before.log, after.log[Len(after.log)])}
                      /\ (before.pc = "classifier" \/ before.state["org_context"] # None) =>
                            /\ Len(after.log) = Len(before.log) + 1
                            /\ after.log[Len(after.log)].svc = "llm"
                      /\ after.state = before.state
                      /\ after.result = EmptyDict
                      /\ store' = store
                /\ before.pc = "raised" =>
                      /\ after.pc = IF before.caller = "api" THEN "failed" ELSE "recorded"
                      /\ after.path = before.path
                      /\ after.log = before.log
                      /\ after.state = before.state
                      /\ "clause_type" \notin DOMAIN after.result
                      /\ store' = store
                /\ before.pc \in {"failed", "recorded"} => after.pc = "classifier" /\ after.path = <<>>
      ]_vars

\* a call of the API whose actionable_node failed after four nodes had run
FailedAtActionable ==
    \E r \in DOMAIN run :
        /\ run[r].pc = "failed"
        /\ run[r].path = <<"classifier", "internal_reference", "glossary",
                           "org_context", "actionable">>
        /\ run[r].result = EmptyDict
        /\ "actionables" \notin DOMAIN run[r].state

\* C18: a step of a node changes only the fields documented for that node:
\* clause_type for classifier; the four definition fields for
\* definition_analysis; resolved_text and referenced_regulations for the two
\* reference resolvers; normalized_text and glossary_terms_used for glossary;
\* org_context for org_context; actionables, actionable_count and
\* is_applicable for actionable and no_actionable. Every other field,
\* clause_text and org_name among them, keeps its value, and these two hold
\* the caller's arguments for as long as the call runs.
FieldOwnership ==
    [][\A r \in DOMAIN run :
          LET before == run[r]
              after == run'[r]
              owned == CASE before.pc = "classifier" -> {"clause_type"}
                         [] before.pc = "definition_analysis" ->
                                {"term_defined", "is_new_definition",
                                 "other_clauses_use_definition",
                                 "dependent_clauses_have_actionables"}
                         [] before.pc \in {"internal_reference", "external_reference"} ->
                                {"resolved_text", "referenced_regulations"}
                         [] before.pc = "glossary" -> {"normalized_text", "glossary_terms_used"}
                         [] before.pc = "org_context" -> {"org_context"}
                         [] before.pc \in {"actionable", "no_actionable"} ->
                                {"actionables", "actionable_count", "is_applicable"}
                         [] OTHER -> {}
          IN  /\ (before.pc \in NodeNames /\ after # before) =>
                    /\ after.written \ before.written \subseteq owned
                    /\ DOMAIN after.state \ DOMAIN before.state \subseteq owned
                    /\ \A f \in DOMAIN before.state \ owned :
                          f \in DOMAIN after.state /\ after.state[f] = before.state[f]
                    /\ after.clause_text = before.clause_text
                    /\ after.org_name = before.org_name
              /\ (after.pc \in NodeNames \cup {"END", "raised", "returned"}) =>
                    /\ after.state["clause_text"] = after.clause_text
                    /\ after.state["org_name"] = after.org_name
      ]_vars

\* a returned call in which five nodes wrote their fields
ReturnedAfterFiveWriters ==
    \E r \in DOMAIN run :
        /\ run[r].pc = "returned"
        /\ run[r].path = <<"classifier", "external_reference", "glossary",
                           "org_context", "actionable">>
        /\ run[r].written = {"clause_type", "resolved_text", "referenced_regulations",
                             "normalized_text", "glossary_terms_used", "org_context",
                             "actionables", "actionable_count", "is_applicable"}
        /\ run[r].state["clause_text"] = run[r].clause_text

\* C31: bounded single forward pass.  A call never runs more than 5 nodes
\* and never makes more than 3 oracle calls, at most one for each of the
\* nodes classifier, definition_analysis and actionable on its path.  A call
\* that left the graph ran 3 nodes when it ended in no_actionable, 4 when
\* its clause_type is direct_req, and 5 on the two reference paths and on
\* the definition path that goes on to the glossary.
BoundedForwardPass ==
    \A r \in DOMAIN run :
        LET p == run[r].path
            oracleCalls == {i \in 1..Len(run[r].log) : run[r].log[i].svc = "llm"}
            oracleNodes == {i \in 1..Len(p) :
                              p[i] \in {"classifier", "definition_analysis", "actionable"}}
        IN  /\ Len(p) <= 5
            /\ Running(r) => Len(p) < 5
            /\ Cardinality(oracleCalls) <= Cardinality(oracleNodes)
            /\ Cardinality(oracleCalls) <= 3
            /\ Ended(r) =>
                  Len(p) = (CASE p[Len(p)] = "no_actionable" -> 3
                              [] run[r].state["clause_type"] = "direct_req" -> 4
                              [] run[r].state["clause_type"] \in
                                     {"internal_ref", "external_ref", "definition"} -> 5)

\* a definition that went on to the glossary: five nodes, three oracle calls
ReturnedAfterThreeOracleCalls ==
    \E r \in DOMAIN run :
        /\ run[r].pc = "returned"
        /\ run[r].path = <<"classifier", "definition_analysis", "glossary",
                           "org_context", "actionable">>
        /\ Cardinality({i \in 1..Len(run[r].log) : run[r].log[i].svc = "llm"}) = 3

(***************************************************************************)
(* Properties of process_all_chunks                                        *)
(***************************************************************************)
\* C16: when process_clause raises for a chunk, process_all_chunks appends
\* exactly one record for it, with is_applicable false, an error field, no
\* actionables and actionable_count 0; the loop goes on, so that there is one
\* record per chunk that was not skipped, in corpus order, and the summary's
\* counters are those of the chunks that returned a result.
BatchErrorIsolation ==
    LET done == batch.i - 1
        kept == SelectSeq([k \in 1..done |-> batch.chunks[k]],
                          LAMBDA c : ~SkipsChunk(c, batch.skip_toc))
        rs == batch.results
        failed(k) == "error" \in DOMAIN rs[k]
        counted == {k \in 1..Len(rs) : ~failed(k) /\ rs[k].is_applicable}
        Sum[k \in 0..Len(rs)] ==
            IF k = 0 THEN 0
            ELSE Sum[k - 1] + (IF k \in counted THEN rs[k].actionable_count ELSE 0)
    IN  batch.phase # "off" =>
          /\ Len(rs) = Len(kept)
          /\ batch.skipped_chunks = done - Len(kept)
          /\ \A k \in 1..Len(rs) :
                /\ rs[k].chunk_id = kept[k].chunk_id
                /\ failed(k) => /\ rs[k].is_applicable = FALSE
                                /\ rs[k].actionables = <<>>
                                /\ rs[k].actionable_count = 0
          /\ batch.applicable_chunks = Cardinality(counted)
          /\ batch.total_actionables = Sum[Len(rs)]
          /\ \A r \in DOMAIN run : run[r].pc = "recorded" => batch.phase \in {"loop", "done"}
          /\ batch.phase = "done" =>
                /\ done = Len(batch.chunks)
                /\ batch.summary.results = rs
                /\ batch.summary.total_chunks_processed = Len(rs)
                /\ batch.summary.skipped_chunks = batch.skipped_chunks
                /\ batch.summary.applicable_chunks = batch.applicable_chunks
                /\ batch.summary.total_actionables = batch.total_actionables

\* a finished batch whose first chunk failed and whose second chunk yielded
\* actionables
BatchWentOnAfterError ==
    /\ batch.phase = "done"
    /\ Len(batch.results) = 2
    /\ "error" \in DOMAIN batch.results[1]
    /\ "error" \notin DOMAIN batch.results[2]
    /\ batch.results[2].is_applicable
    /\ batch.summary.total_actionables = 2
    /\ batch.summary.applicable_chunks = 1

\* C34: batch accounting.  The summary process_all_chunks returns satisfies
\* total_chunks_processed + skipped_chunks = number of input chunks,
\* total_chunks_processed = length of results, applicable_chunks = number of
\* results with is_applicable true, total_actionables = sum of their
\* actionable_count, and the results follow the order of the input chunks.
BatchAccounting ==
    batch.phase = "done" =>
        LET s == batch.summary
            rs == s.results
            applicable == {k \in 1..Len(rs) : rs[k].is_applicable}
            Total[k \in 0..Len(rs)] ==
                IF k = 0 THEN 0
                ELSE Total[k - 1] + (IF rs[k].is_applicable THEN rs[k].actionable_count ELSE 0)
        IN  /\ s.total_chunks_processed + s.skipped_chunks = Len(batch.chunks)
            /\ s.total_chunks_processed = Len(rs)
            /\ s.applicable_chunks = Cardinality(applicable)
            /\ s.total_actionables = Total[Len(rs)]
            /\ \E pos \in [1..Len(rs) -> 1..Len(batch.chunks)] :
                  /\ \A k \in 1..Len(rs) : rs[k].chunk_id = batch.chunks[pos[k]].chunk_id
                  /\ \A k, l \in 1..Len(rs) : k < l => pos[k] < pos[l]


\* a finished batch of three chunks: one gave two actionables, one was not
\* applicable, one failed
BatchOfThreeOutcomes ==
    /\ batch.phase = "done"
    /\ Len(batch.summary.results) = 3
    /\ \E k \in 1..3 : "error" \in DOMAIN batch.summary.results[k]
    /\ \E k \in 1..3 : /\ "error" \notin DOMAIN batch.summary.results[k]
                       /\ ~batch.summary.results[k].is_applicable
    /\ \E k \in 1..3 : /\ batch.summary.results[k].is_applicable
                       /\ batch.summary.results[k].actionable_count = 2
    /\ batch.summary.total_actionables = 2
    /\ batch.summary.applicable_chunks = 1
    /\ batch.summary.skipped_chunks = 0


(***************************************************************************)
(* Properties of the batch endpoints                                       *)
(***************************************************************************)
\* C35: at most one batch run per organization is in progress: a POST
\* /batch_process that is answered while a run scheduled by an earlier
\* "started" answer for the same org_name has not finished is answered
\* "already_running" and schedules no task.
OneBatchRunPerOrg ==
    [][\A org_name \in BatchOrgs :
          (/\ Len(api'.answers) = Len(api.answers) + 1
           /\ api'.answers[Len(api'.answers)].org_name = org_name
           /\ \E t \in DOMAIN api.tasks : /\ api.tasks[t].org_name = org_name
                                          /\ api.tasks[t].pc # "done")
          => /\ api'.answers[Len(api'.answers)].status = "already_running"
             /\ api'.tasks = api.tasks]_vars

\* C36: a status of "running" leads to "completed" or "error"; when every
\* task of an org_name has returned its status is not "running"; and
\* "completed" is written only by a task whose save_results has returned.
BatchStatusProgress ==
    /\ \A org_name \in BatchOrgs :
          (/\ Has(api.batch_status, org_name)
           /\ api.batch_status[org_name].status = "running")
          ~> (/\ Has(api.batch_status, org_name)
              /\ api.batch_status[org_name].status \in {"completed", "error"})
    /\ [](\A org_name \in DOMAIN api.batch_status :
             (\A t \in DOMAIN api.tasks :
                 api.tasks[t].org_name = org_name => api.tasks[t].pc = "done")
             => api.batch_status[org_name].status # "running")
    /\ [][\A org_name \in DOMAIN api'.batch_status :
             (/\ api'.batch_status[org_name].status = "completed"
              /\ Get(api.batch_status, org_name, EmptyDict) # api'.batch_status[org_name])
             => \E t \in DOMAIN api.tasks :
                   /\ api.tasks[t].org_name = org_name
                   /\ api.tasks[t].pc = "saved"
                   /\ api'.tasks[t].pc = "done"]_vars

\* one run ended in "completed" with its totals, another in "error" after
\* save_results raised
BatchRunsCompletedAndFailed ==
    /\ Has(api.batch_status, "HDFC AMC")
    /\ api.batch_status["HDFC AMC"] =
          [status |-> "completed", total_actionables |-> 2, applicable_chunks |-> 1]
    /\ Has(api.batch_status, "Navi AMC")
    /\ api.batch_status["Navi AMC"] = [status |-> "error", error |-> "save_results"]
    /\ \A t \in DOMAIN api.tasks : api.tasks[t].pc = "done"


(***************************************************************************)
(* Properties of the normalizer                                            *)
(***************************************************************************)
\* C37: the normalized_text glossary_node returns is at least as long as its
\* input text, and one more pass of the abbreviation loop over that
\* normalized_text returns it unchanged.
NormalizerIdempotent ==
    (ut.kind = "glossary" /\ ut.done) =>
        LET text == IF Get(ut.state, "resolved_text", "") # ""
                    THEN ut.state["resolved_text"] ELSE ut.state["clause_text"]
            out == ut.res.upd["normalized_text"]
        IN  /\ ~ut.res.raised
            /\ Len(out) >= Len(text)
            /\ ExpandAbbreviations(out, EmptyDict, 1)[1] = out

=============================================================================
